---- MODULE Spec2Model ----
(***************************************************************************)
(* Quickey ring menu: the 8-slot button store (config_manager.py), the     *)
(* preferences editor that writes it (preferences.py) and the ring window  *)
(* that renders it and runs the close sequence (window.py).                *)
(***************************************************************************)
EXTENDS Integers, Sequences, FiniteSets, Bags, TLC

(***************************************************************************)
(* Python values.  Every value is a record of the same shape so that any   *)
(* two values can be compared: t is the Python type, n the number of an    *)
(* int/bool, s the text of a str (or the key of a dict entry), c the items *)
(* of a list, the entries of a dict, or the value of a dict entry.         *)
(***************************************************************************)
PyVal(t, n, s, c) == [t |-> t, n |-> n, s |-> s, c |-> c]
PyNone == PyVal("none", 0, "", <<>>)
PyBool(b) == PyVal("bool", IF b THEN 1 ELSE 0, "", <<>>)
PyInt(n) == PyVal("int", n, "", <<>>)
PyStr(s) == PyVal("str", 0, s, <<>>)
PyList(items) == PyVal("list", 0, "", items)
KV(k, v) == PyVal("kv", 0, k, <<v>>)
PyDict(entries) == PyVal("dict", 0, "", entries)

IsDict(v) == v.t = "dict"
IsList(v) == v.t = "list"

\* Python truth value: None, False, 0, "", [] and {} are falsy.
Truthy(v) ==
    CASE v.t = "none" -> FALSE
      [] v.t = "bool" -> v.n = 1
      [] v.t = "int" -> v.n # 0
      [] v.t = "str" -> v.s # ""
      [] OTHER -> v.c # <<>>

HasKey(d, k) == \E j \in 1..Len(d.c) : d.c[j].s = k

\* dict.get(k): the value stored under k, None when the key is absent.
DictGet(d, k) ==
    IF HasKey(d, k)
    THEN d.c[CHOOSE j \in 1..Len(d.c) : d.c[j].s = k].c[1]
    ELSE PyNone

\* d[k] = v: replaces the value in place, or appends a new entry.
DictSet(d, k, v) ==
    IF HasKey(d, k)
    THEN PyDict([j \in 1..Len(d.c) |-> IF d.c[j].s = k THEN KV(k, v) ELSE d.c[j]])
    ELSE PyDict(Append(d.c, KV(k, v)))

(***************************************************************************)
(* JSON text, as the sequence of its tokens.                               *)
(***************************************************************************)
Tok(k, s) == [k |-> k, s |-> s]
LBrack == Tok("p", "[")
RBrack == Tok("p", "]")
LBrace == Tok("p", "{")
RBrace == Tok("p", "}")
Comma == Tok("p", ",")
Colon == Tok("p", ":")
Lit(s) == Tok("lit", s)
Num(s) == Tok("num", s)
Str(s) == Tok("str", s)

Digits == <<"0", "1", "2", "3", "4", "5", "6", "7", "8", "9">>

RECURSIVE dumps(_)
RECURSIVE dumpItems(_)

\* json.dumps
dumps(v) ==
    CASE v.t = "none" -> <<Lit("null")>>
      [] v.t = "bool" -> <<Lit(IF v.n = 1 THEN "true" ELSE "false")>>
      [] v.t = "int" -> <<Num(Digits[v.n + 1])>>
      [] v.t = "str" -> <<Str(v.s)>>
      [] v.t = "list" -> <<LBrack>> \o dumpItems(v.c) \o <<RBrack>>
      [] v.t = "dict" -> <<LBrace>> \o dumpItems(v.c) \o <<RBrace>>
      [] v.t = "kv" -> <<Str(v.s), Colon>> \o dumps(v.c[1])

dumpItems(items) ==
    IF items = <<>> THEN <<>>
    ELSE IF Len(items) = 1 THEN dumps(items[1])
    ELSE dumps(items[1]) \o <<Comma>> \o dumpItems(Tail(items))

ParseFail == [ok |-> FALSE, v |-> PyNone, nxt |-> 0]
ParseOk(v, nxt) == [ok |-> TRUE, v |-> v, nxt |-> nxt]

RECURSIVE parseValue(_, _)
RECURSIVE parseElems(_, _, _)
RECURSIVE parseMembers(_, _, _)

\* One JSON value starting at token i.
parseValue(ts, i) ==
    IF i > Len(ts) THEN ParseFail
    ELSE LET tk == ts[i] IN
        CASE tk = Lit("null") -> ParseOk(PyNone, i + 1)
          [] tk = Lit("true") -> ParseOk(PyBool(TRUE), i + 1)
          [] tk = Lit("false") -> ParseOk(PyBool(FALSE), i + 1)
          [] tk.k = "num" ->
                IF \E n \in 0..9 : Digits[n + 1] = tk.s
                THEN ParseOk(PyInt(CHOOSE n \in 0..9 : Digits[n + 1] = tk.s), i + 1)
                ELSE ParseFail
          [] tk.k = "str" -> ParseOk(PyStr(tk.s), i + 1)
          [] tk = LBrack ->
                IF i + 1 <= Len(ts) /\ ts[i + 1] = RBrack
                THEN ParseOk(PyList(<<>>), i + 2)
                ELSE parseElems(ts, i + 1, <<>>)
          [] tk = LBrace ->
                IF i + 1 <= Len(ts) /\ ts[i + 1] = RBrace
                THEN ParseOk(PyDict(<<>>), i + 2)
                ELSE parseMembers(ts, i + 1, PyDict(<<>>))
          [] OTHER -> ParseFail

parseElems(ts, i, acc) ==
    LET r == parseValue(ts, i) IN
    IF ~r.ok \/ r.nxt > Len(ts) THEN ParseFail
    ELSE IF ts[r.nxt] = Comma THEN parseElems(ts, r.nxt + 1, Append(acc, r.v))
    ELSE IF ts[r.nxt] = RBrack THEN ParseOk(PyList(Append(acc, r.v)), r.nxt + 1)
    ELSE ParseFail

parseMembers(ts, i, acc) ==
    IF i + 1 > Len(ts) \/ ts[i].k # "str" \/ ts[i + 1] # Colon THEN ParseFail
    ELSE LET r == parseValue(ts, i + 2) IN
        IF ~r.ok \/ r.nxt > Len(ts) THEN ParseFail
        ELSE IF ts[r.nxt] = Comma
             THEN parseMembers(ts, r.nxt + 1, DictSet(acc, ts[i].s, r.v))
        ELSE IF ts[r.nxt] = RBrace
             THEN ParseOk(DictSet(acc, ts[i].s, r.v), r.nxt + 1)
        ELSE ParseFail

\* json.loads: ok = FALSE stands for the exception it raises.
loads(ts) ==
    LET r == parseValue(ts, 1) IN
    IF r.ok /\ r.nxt = Len(ts) + 1
    THEN [ok |-> TRUE, v |-> r.v]
    ELSE [ok |-> FALSE, v |-> PyNone]


(***************************************************************************)
(* Slots and catalog descriptors.                                          *)
(***************************************************************************)
NumSlots == 8

Slot(name, icon, type, action) ==
    PyDict(<<KV("name", PyStr(name)), KV("icon", PyStr(icon)),
             KV("type", PyStr(type)), KV("action", PyStr(action))>>)

\* ConfigManager._create_empty_slot
EmptySlot == Slot("Empty", "list-add-symbolic", "empty", "")

\* The placeholder quickeyWindow writes for a removed action: {}.
EmptyObject == PyDict(<<>>)

\* A built-in entry of AppScanner.get_all_actions.
Builtin(name, icon, action, desc) ==
    PyDict(<<KV("name", PyStr(name)), KV("icon", PyStr(icon)),
             KV("type", PyStr("internal")), KV("action", PyStr(action)),
             KV("group", PyStr("Built-in Action")), KV("desc", PyStr(desc))>>)

DescMedia == Builtin("Media", "multimedia-player", "media", "Play/Pause and media controls")
DescFiles == Builtin("Files", "system-file-manager", "files", "Open File Manager")
DescScreenshot == Builtin("Screenshot", "applets-screenshooter", "screenshot", "Take a screenshot")
DescPreferences == Builtin("Quickey Preferences", "open-menu", "preferences", "Configure Quickey settings")

\* What AppScanner._parse_desktop_file returns for one .desktop file.
ParsedDesktopFile(name, icon, file_name, desc, hidden, is_flatpak) ==
    PyDict(<<KV("name", PyStr(name)), KV("icon", PyStr(icon)),
             KV("type", PyStr("app")), KV("action", PyStr(file_name)),
             KV("desc", PyStr(desc)), KV("group", PyStr("Applications")),
             KV("hidden", PyBool(hidden)), KV("is_flatpak", PyBool(is_flatpak))>>)

DescGimp == ParsedDesktopFile("GIMP", "org.gimp.GIMP", "org.gimp.GIMP.desktop", "", FALSE, TRUE)

\* The synthetic last entry of the catalog.
DescCustom ==
    PyDict(<<KV("name", PyStr("Custom Command")), KV("icon", PyStr("utilities-terminal-symbolic")),
             KV("type", PyStr("command")), KV("action", PyStr("")),
             KV("desc", PyStr("Type in a custom command")), KV("group", PyStr("Custom"))>>)

\* ActionPicker._on_custom_activate with the command text cmd (first word name).
CustomResult(name, cmd) ==
    PyDict(<<KV("name", PyStr(name)), KV("icon", PyStr("utilities-terminal-symbolic")),
             KV("type", PyStr("command")), KV("action", PyStr(cmd)),
             KV("desc", PyStr(cmd))>>)

\* The catalog rows the picker offers (a sample of AppScanner.get_all_actions).
Catalog == <<DescMedia, DescPreferences, DescGimp>>

SlotMedia == Slot("Media", "multimedia-player", "internal", "media")
SlotFiles == Slot("Files", "system-file-manager", "internal", "files")
SlotScreenshot == Slot("Screenshot", "applets-screenshooter", "internal", "screenshot")
SlotPreferences == Slot("Preferences", "open-menu", "internal", "preferences")
SlotApp == Slot("Calculator", "accessories-calculator", "app", "gnome-calculator.desktop")
SlotCommand == Slot("echo", "utilities-terminal-symbolic", "command", "echo hi")
SlotPrefix == Slot("Prefix", "system-run-symbolic", "prefix", "quickey.prefix")
SlotFile == Slot("notes.txt", "text-x-generic", "file", "/home/user/notes.txt")

(***************************************************************************)
(* ConfigManager                                                           *)
(***************************************************************************)
\* Python list indexing: position (1-based) of index i in a list of length n,
\* 0 when list[i] raises IndexError.
PyIndex(i, n) ==
    IF 0 <= i /\ i < n THEN i + 1
    ELSE IF i < 0 /\ -n <= i THEN n + i + 1
    ELSE 0

\* A faulty load that takes whatever parsed for a list.
NormalizeButtons_unchecked(json_str, filler) ==
    LET r == loads(json_str)
        parsed == IF r.ok THEN r.v ELSE PyList(<<>>)
        buttons == parsed.c
    IN [i \in 1..NumSlots |->
           IF i <= Len(buttons) /\ Truthy(buttons[i]) THEN buttons[i] ELSE filler]

\* The body shared by both load_configured_buttons methods, given the slot
\* that fills a hole.
NormalizeButtons(json_str, filler) ==
    LET r == loads(json_str)
        parsed == IF r.ok THEN r.v ELSE PyList(<<>>)
        buttons == IF ~Truthy(parsed) \/ ~IsList(parsed) THEN <<>> ELSE parsed.c
        final_buttons == [i \in 1..NumSlots |->
                             IF i <= Len(buttons) THEN buttons[i] ELSE PyNone]
    IN [i \in 1..NumSlots |->
           IF ~Truthy(final_buttons[i]) THEN filler ELSE final_buttons[i]]

\* ConfigManager.load_configured_buttons
load_configured_buttons(json_str) == NormalizeButtons(json_str, EmptySlot)

\* quickeyWindow.load_configured_buttons
window_load_configured_buttons(json_str) == NormalizeButtons(json_str, EmptySlot)

RECURSIVE PadTo(_, _, _)
\* while len(buttons) < n: buttons.append(filler)
PadTo(buttons, n, filler) ==
    IF Len(buttons) < n THEN PadTo(Append(buttons, filler), n, filler) ELSE buttons

\* A faulty save_buttons that keeps one slot too few.
save_buttons_short(buttons) ==
    dumps(PyList(SubSeq(PadTo(buttons, NumSlots, EmptySlot), 1, NumSlots - 1)))

\* ConfigManager.save_buttons: the string it writes to the key.
save_buttons(buttons) ==
    dumps(PyList(SubSeq(PadTo(buttons, NumSlots, EmptySlot), 1, NumSlots)))

\* A faulty reset_slot that clears the slot after the one asked for.
reset_slot_next(json_str, index) ==
    LET buttons == load_configured_buttons(json_str) IN
    IF 0 <= index /\ index < NumSlots
    THEN save_buttons([buttons EXCEPT ![index + 2] = EmptySlot])
    ELSE json_str

\* ConfigManager.reset_slot: the stored string afterwards.
reset_slot(json_str, index) ==
    LET buttons == load_configured_buttons(json_str) IN
    IF 0 <= index /\ index < NumSlots
    THEN save_buttons([buttons EXCEPT ![index + 1] = EmptySlot])
    ELSE json_str

\* Whether reset_slot reaches settings.set_string.
reset_slot_writes(index) == 0 <= index /\ index < NumSlots


(***************************************************************************)
(* State                                                                   *)
(***************************************************************************)
VARIABLES
    settings,          \* the GSettings key "buttons-json": a JSON text
    wrote,             \* whether the last step reached settings.set_string
    ops,               \* number of store/editor operations performed so far
    pref_open,         \* a PreferencesWindow exists
    buttons,           \* PreferencesWindow.buttons
    rows,              \* rows[r]: position in buttons of the dict that editor row r holds
    populate_pending,  \* an idle populate_buttons is queued (on_reorder)
    win,               \* the ring window: "none", "constructed", "syncing", "shown", "destroyed"
    app_running,       \* FALSE once Application.quit has run
    sync_window,       \* the pointer-sync helper window exists
    is_quitting,       \* quickeyWindow.is_quitting
    visible,           \* the ring window is visible
    focused,           \* the ring window has the input focus
    action_data,       \* _action_data of the 8 ring buttons
    sd,                \* per slot, the actions of its satellite buttons (label_data['sd'])
    btn_hidden,        \* per slot, the ring button carries the class "hidden"
    sd_hidden,         \* per slot, its satellites carry the class "hidden"
    lb_visible,        \* per slot, its label carries the class "visible"
    sl_visible,        \* per slot, the satellites whose label carries "visible"
    close_hidden,      \* the centre close button carries the class "hidden"
    angle,             \* per slot, the angles (degrees) its button, label and
                       \* satellites were last placed at
    timers,            \* bag of pending GLib timeout/idle callbacks
    portal,            \* screenshot portal request: "none", "pending", "answered"
    hide_order,        \* the slot indices hidden so far by animate_quit.hide_button
    teardowns,         \* the teardown effects scheduled so far ("quit" / "destroy")
    requests,          \* number of animate_quit calls so far (saturating)
    first_quit_app,    \* should_quit_app of the first animate_quit call ("none" before)
    last,              \* the last store operation or dispatch run, and its outcome
    apps,              \* what Gio.AppInfo.get_all returns, in its order
    dirs,              \* per scan path: whether it exists, is listable, and its listing
    actions,           \* the list AppScanner.get_all_actions returned (<<>> before)
    label_pos,         \* per slot, the measured size of its label and where
                       \* fixed.move last put it (<<>> while not tracked)
    place,             \* where the pointer is and the widget it is over
    shake              \* the ShakeListener: reversals needed and seen, last directions
                       \* (the one in state PRELIGHT), self.target_x/y, the pending
                       \* reposition_to_cursor timeouts, and the log of what
                       \* each presentation did to the helper and the window

storeVars == <<settings, wrote>>
editorVars == <<pref_open, buttons, rows, populate_pending>>
lifeVars == <<win, app_running, sync_window, is_quitting, visible, focused, portal>>
ringVars == <<action_data, sd, btn_hidden, sd_hidden, lb_visible, sl_visible, close_hidden,
              angle>>
histVars == <<hide_order, teardowns, requests, first_quit_app, last>>
scanVars == <<apps, dirs, actions>>
asideVars == <<scanVars, label_pos, place, shake>>
vars == <<storeVars, ops, editorVars, lifeVars, ringVars, histVars, timers, asideVars>>

Slots == 1..NumSlots

\* quickeyWindow.setup_ring_menu: self.sub_action_map
sub_action_map(action_key) ==
    IF action_key = PyStr("media")
    THEN <<"Previous", "Backward10", "Forward10", "Next">>
    ELSE IF action_key = PyStr("screenshot")
    THEN <<"screenshot_area", "screenshot_window", "screenshot_full",
           "screenshot_area_5s", "screenshot_window_5s", "screenshot_full_5s">>
    ELSE <<>>

\* The longest list of sub_action_map.
MaxSatellites == Len(sub_action_map(PyStr("screenshot")))

\* A faulty _rebuild_sub_buttons that creates no satellite.
rebuild_sub_buttons_none(data) == <<>>

\* quickeyWindow._rebuild_sub_buttons: the satellites created for data.
rebuild_sub_buttons(data) == sub_action_map(DictGet(data, "action"))

AllDicts(list) == \A i \in 1..Len(list) : IsDict(list[i])

Identity == [r \in Slots |-> r]

\* A pending callback: the function, its list argument, its string argument
\* and the should_quit_app it captured.
Timer(cb, arg, str, q) == [cb |-> cb, arg |-> arg, s |-> str, q |-> q]
Idle(cb) == Timer(cb, <<>>, "", FALSE)

\* The "changed::buttons-json" handler: queues refresh_all_ring_buttons when a
\* ring window is connected to the signal.
NotifyChanged(tm) ==
    IF win \in {"constructed", "syncing", "shown"} /\ app_running
    THEN tm (+) SetToBag({Idle("refresh_all_ring_buttons")})
    ELSE tm

\* What the last handler did: the slot index it was given, what its external
\* call did (spawn), the fallback call of _open_file, the screenshot mode it
\* used, whether it logged the attempt (logger.info) or an error
\* (logger.error), whether it called animate_quit, and, for a media command
\* (cmd), the players on the session bus and the method calls sent to them.
NoOutcome == [handler |-> "none", index |-> 0, spawn |-> "none", fallback |-> "none",
              mode |-> "", attempt_logged |-> FALSE,
              error_logged |-> FALSE, close_requested |-> FALSE,
              cmd |-> "", players |-> {}, sent |-> {}]

\* History: the operation handler ran with the slot index it was given.
Did(handler, index) ==
    /\ last' = [NoOutcome EXCEPT !.handler = handler, !.index = index]
    /\ UNCHANGED <<hide_order, teardowns, requests, first_quit_app>>


(***************************************************************************)
(* Bounds of the model                                                     *)
(***************************************************************************)
\* Store/editor operations explored from each initial state.
MaxOps == 1
\* Sub-buttons the editor attaches to one slot.
MaxSubs == 1
\* animate_quit calls counted (the counter saturates here).
MaxRequests == 2
\* check_focus callbacks pending at once.
MaxFocusChecks == 1
\* The number of times the application is activated again.
MaxActivations == 1
\* The widest character and the tallest line a font may have, in pixels.
MaxCharWidth == 12
MaxLineHeight == 9
\* The number of hover timeouts (400 ms hide, 50 ms restore) pending at once.
MaxHoverTimers == 2
\* Sub-button edits made while the ring is on screen.
MaxSubEdits == 2

(***************************************************************************)
(* Stored strings the key may hold when the program starts.                *)
(***************************************************************************)
TypicalButtons ==
    <<SlotMedia, SlotFiles, SlotScreenshot, SlotPreferences,
      SlotApp, SlotCommand, SlotPrefix, EmptySlot>>

StoredStrings ==
    { <<>>,                                      \* the empty string
      <<Tok("bad", "quickey")>>,                 \* not JSON
      <<LBrack, LBrace>>,                        \* truncated JSON
      dumps(PyNone),
      dumps(PyInt(7)),
      dumps(PyStr("buttons")),
      dumps(EmptySlot),                          \* an object, not a list
      dumps(PyList(<<>>)),
      dumps(PyList(<<SlotPreferences>>)),
      dumps(PyList(<<PyDict(<<KV("name", PyStr("x"))>>), SlotCommand>>)),
      dumps(PyList(<<PyInt(1), PyStr("x"), PyNone, EmptyObject, PyList(<<>>),
                     PyBool(FALSE), PyInt(0), SlotMedia>>)),
      dumps(PyList(TypicalButtons)),
      dumps(PyList(<<DictSet(SlotFiles, "sub_buttons", PyList(<<SlotFile>>)),
                     SlotPreferences>>)),
      dumps(PyList(TypicalButtons \o <<SlotFile>>)) }

\* The angles below are in degrees; the code multiplies each by math.pi / 180
\* before taking cos and sin.  360 / num_items is exact for the 8 items that
\* load_configured_buttons returns.

\* setup_ring_menu: angle = i * (360 / num_items) - 90
setup_angle(i, num_items) == i * (360 \div num_items) - 90

\* A faulty angle that starts at 3 o'clock.
refresh_angle_east(index) == index * (360 \div 8)

\* refresh_button_ui: angle = index * (360 / 8) - 90
refresh_angle(index) == index * (360 \div 8) - 90

\* reposition_all_labels: angle = i * (360 / 8) - 90
reposition_angle(i) == i * (360 \div 8) - 90

\* _rebuild_sub_buttons: angle = index * (360 / 8) - 90, computed when the
\* action has satellites to place.
rebuild_angle(index, data) ==
    IF rebuild_sub_buttons(data) # <<>> THEN {index * (360 \div 8) - 90} ELSE {}

\* refresh_button_ui(index, data): the satellites are rebuilt around the
\* slot's angle and the label is moved to it; the button stays where it is.
Refreshed(placed, index, data) ==
    [placed EXCEPT !.lb = refresh_angle(index), !.sd = rebuild_angle(index, data)]

(***************************************************************************)
(* The ring window, as far as the store operations touch it.               *)
(***************************************************************************)
\* First position whose data is not a dict (NumSlots + 1 when all are):
\* refresh_button_ui raises AttributeError there.
FirstBad(items) ==
    IF AllDicts(items) THEN NumSlots + 1
    ELSE CHOOSE i \in Slots : ~IsDict(items[i]) /\ \A j \in 1..(i - 1) : IsDict(items[j])

\* quickeyWindow.refresh_all_ring_buttons: refresh_button_ui(i, data) for each
\* loaded entry in order, up to the first one that raises.
RefreshAll(items) ==
    LET bad == FirstBad(items) IN
    /\ action_data' = [i \in Slots |-> IF i < bad THEN items[i] ELSE action_data[i]]
    /\ sd' = [i \in Slots |-> IF i < bad THEN rebuild_sub_buttons(items[i])
                              ELSE IF i = bad THEN <<>> ELSE sd[i]]
    /\ sd_hidden' = [i \in Slots |-> IF i <= bad THEN TRUE ELSE sd_hidden[i]]
    /\ sl_visible' = [i \in Slots |-> IF i <= bad THEN {} ELSE sl_visible[i]]
    /\ angle' = [i \in Slots |-> IF i < bad THEN Refreshed(angle[i], i - 1, items[i])
                                 ELSE IF i = bad THEN [angle[i] EXCEPT !.sd = {}]
                                 ELSE angle[i]]

\* The idle callback queued by _on_settings_buttons_changed.
refresh_all_ring_buttons ==
    /\ app_running
    /\ BagIn(Idle("refresh_all_ring_buttons"), timers)
    /\ timers' = timers (-) SetToBag({Idle("refresh_all_ring_buttons")})
    /\ RefreshAll(window_load_configured_buttons(settings))
    /\ wrote' = FALSE
    /\ UNCHANGED <<settings, editorVars, lifeVars, btn_hidden, lb_visible,
                   close_hidden, histVars>>

\* quickeyWindow.on_remove_action(button, index)
on_remove_action(index) ==
    LET r == loads(settings)
        parsed == IF r.ok THEN r.v ELSE PyList(<<>>)
        padded == PadTo(parsed.c, NumSlots, EmptyObject)
        pos == PyIndex(index, Len(padded))
        ui == PyIndex(index, NumSlots)
    IN
    /\ Did("on_remove_action", index)
    /\ app_running /\ win = "shown"
    /\ IF IsList(parsed) /\ pos # 0
       THEN /\ settings' = dumps(PyList([padded EXCEPT ![pos] = EmptyObject]))
            /\ wrote' = TRUE
            /\ timers' = NotifyChanged(timers)
            /\ IF ui # 0
               THEN /\ action_data' = [action_data EXCEPT ![ui] = EmptySlot]
                    /\ sd' = [sd EXCEPT ![ui] = rebuild_sub_buttons(EmptySlot)]
                    /\ sd_hidden' = [sd_hidden EXCEPT ![ui] = TRUE]
                    /\ sl_visible' = [sl_visible EXCEPT ![ui] = {}]
                    /\ angle' = [angle EXCEPT ![ui] = Refreshed(@, index, EmptySlot)]
               ELSE UNCHANGED <<action_data, angle, sd, sd_hidden, sl_visible>>
       ELSE /\ wrote' = FALSE
            /\ UNCHANGED <<settings, timers, action_data, angle, sd, sd_hidden, sl_visible>>
    /\ UNCHANGED <<editorVars, lifeVars, btn_hidden, lb_visible, close_hidden>>


(***************************************************************************)
(* ConfigManager called directly, and the preferences editor.              *)
(***************************************************************************)
Indices == -1..NumSlots

\* ConfigManager.reset_slot(index)
ResetSlot(index) ==
    /\ Did("reset_slot", index)
    /\ settings' = reset_slot(settings, index)
    /\ wrote' = reset_slot_writes(index)
    /\ timers' = IF reset_slot_writes(index) THEN NotifyChanged(timers) ELSE timers
    /\ UNCHANGED <<editorVars, lifeVars, ringVars>>

\* ConfigManager.save_buttons(ConfigManager.load_configured_buttons())
SaveLoaded ==
    /\ Did("save_buttons", 0)
    /\ settings' = save_buttons(load_configured_buttons(settings))
    /\ wrote' = TRUE
    /\ timers' = NotifyChanged(timers)
    /\ UNCHANGED <<editorVars, lifeVars, ringVars>>

\* A faulty editor save that writes the list as it was before the edit.
EditorSave_stale(new_buttons, new_rows, pending) ==
    /\ buttons' = new_buttons
    /\ settings' = save_buttons(buttons)
    /\ wrote' = TRUE
    /\ timers' = NotifyChanged(timers)
    /\ rows' = new_rows
    /\ populate_pending' = pending
    /\ UNCHANGED pref_open

\* PreferencesWindow.save_buttons, then what the caller does to the rows.
EditorSave(new_buttons, new_rows, pending) ==
    /\ buttons' = new_buttons
    /\ settings' = save_buttons(new_buttons)
    /\ wrote' = TRUE
    /\ timers' = NotifyChanged(timers)
    /\ rows' = new_rows
    /\ populate_pending' = pending
    /\ UNCHANGED pref_open

EditorUnchanged ==
    /\ wrote' = FALSE
    /\ UNCHANGED <<settings, timers, editorVars>>

Singletons == {PyStr("media"), PyStr("screenshot"), PyStr("preferences")}

\* A faulty exclusion list that is always empty.
Excluded_none(index) == {}

\* on_replace_button: the singleton actions held by the other slots.
Excluded(index) ==
    {DictGet(buttons[i], "action") : i \in {j \in 1..Len(buttons) : j # index + 1}}
        \cap Singletons

\* What ActionPicker.get_result can return: None (cancelled), a catalog row
\* that _populate_list shows, or the custom-command dict for the text typed
\* (which may spell the action of a built-in).
PickerResults(excluded) ==
    {PyNone, CustomResult("echo", "echo hi"), CustomResult("media", "media")}
        \cup {Catalog[k] : k \in {j \in 1..Len(Catalog) :
                                     DictGet(Catalog[j], "action") \notin excluded}}

\* PreferencesWindow.on_replace_button(index) with the picker's answer.
on_replace_button(index, result) ==
    /\ Did("on_replace_button", index)
    /\ pref_open
    /\ IF 0 <= index /\ index < Len(buttons)
       THEN /\ result \in PickerResults(Excluded(index))
            /\ IF Truthy(result)
               THEN EditorSave([buttons EXCEPT ![index + 1] = result], Identity,
                               populate_pending)
               ELSE EditorUnchanged
       ELSE /\ result = PyNone
            /\ EditorUnchanged
    /\ UNCHANGED <<lifeVars, ringVars>>

\* A faulty guard that protects nothing.
IsProtected_never(data) == FALSE

\* on_delete: "Verify it's not the protected Preferences button".
IsProtected(data) == DictGet(data, "action") = PyStr("preferences")

\* PreferencesWindow.on_delete(index)
on_delete(index) ==
    /\ Did("on_delete", index)
    /\ pref_open
    /\ IF 0 <= index /\ index < Len(buttons) /\ ~IsProtected(buttons[index + 1])
       THEN LET stored == reset_slot(settings, index) IN
            /\ settings' = stored
            /\ wrote' = reset_slot_writes(index)
            /\ timers' = NotifyChanged(timers)
            /\ buttons' = load_configured_buttons(stored)
            /\ rows' = Identity
            /\ UNCHANGED <<pref_open, populate_pending>>
       ELSE EditorUnchanged
    /\ UNCHANGED <<lifeVars, ringVars>>

\* A faulty reorder that exchanges the two items.
MoveItem_swap(list, source, dest) ==
    [list EXCEPT ![source + 1] = list[dest + 1], ![dest + 1] = list[source + 1]]

\* list.pop(source) followed by list.insert(dest, item), 0-based.
MoveItem(list, source, dest) ==
    LET without == SubSeq(list, 1, source) \o SubSeq(list, source + 2, Len(list))
        at == IF dest > Len(without) THEN Len(without) ELSE dest
    IN SubSeq(without, 1, at) \o <<list[source + 1]>> \o SubSeq(without, at + 1, Len(without))

\* Where the item at 1-based position p ends up after MoveItem.
MovedPos(p, source, dest) ==
    IF p = source + 1 THEN dest + 1
    ELSE LET q == IF p > source + 1 THEN p - 1 ELSE p
         IN IF q >= dest + 1 THEN q + 1 ELSE q

\* PreferencesWindow.on_reorder(source_idx, dest_idx)
on_reorder(source_idx, dest_idx) ==
    /\ Did("on_reorder", source_idx)
    /\ pref_open
    /\ IF source_idx # dest_idx
       THEN EditorSave(MoveItem(buttons, source_idx, dest_idx),
                       [r \in Slots |-> MovedPos(rows[r], source_idx, dest_idx)],
                       TRUE)
       ELSE EditorUnchanged
    /\ UNCHANGED <<lifeVars, ringVars>>

\* The idle populate_buttons queued by on_reorder.
populate_buttons ==
    /\ pref_open /\ populate_pending
    /\ populate_pending' = FALSE
    /\ rows' = Identity
    /\ wrote' = FALSE
    /\ UNCHANGED <<settings, pref_open, buttons, lifeVars, ringVars, histVars, timers>>

\* ReorderableButtonRow.__init__: the row shows the add/delete buttons.
RowHasActions(data) ==
    /\ DictGet(data, "action") # PyStr("preferences")
    /\ DictGet(data, "type") # PyStr("empty")

\* action_data.get("sub_buttons", [])
SubButtons(data) ==
    IF HasKey(data, "sub_buttons") THEN DictGet(data, "sub_buttons").c ELSE <<>>

\* What on_add_sub_clicked hands to _add_sub_button: a file for the Files
\* button, otherwise a picker result (no exclusions).
SubResults(data) ==
    IF DictGet(data, "action") = PyStr("files")
    THEN {SlotFile}
    ELSE PickerResults({}) \ {PyNone}

\* ReorderableButtonRow._add_sub_button(sub_data) on editor row r
add_sub_button(r, sub_data) ==
    LET data == buttons[rows[r]]
        current_subs == Append(SubButtons(data), sub_data)
    IN
    /\ Did("add_sub_button", r - 1)
    /\ pref_open
    /\ RowHasActions(data)
    /\ sub_data \in SubResults(data)
    /\ Len(SubButtons(data)) < MaxSubs
    /\ EditorSave([buttons EXCEPT ![rows[r]] = DictSet(data, "sub_buttons", PyList(current_subs))],
                  rows, populate_pending)
    /\ UNCHANGED <<lifeVars, ringVars>>

\* ReorderableButtonRow._remove_sub_button(index) on editor row r
remove_sub_button(r, index) ==
    LET data == buttons[rows[r]]
        subs == SubButtons(data)
        current_subs == SubSeq(subs, 1, index) \o SubSeq(subs, index + 2, Len(subs))
    IN
    /\ Did("remove_sub_button", r - 1)
    /\ pref_open
    /\ IF 0 <= index /\ index < Len(subs)
       THEN EditorSave([buttons EXCEPT ![rows[r]] = DictSet(data, "sub_buttons", PyList(current_subs))],
                       rows, populate_pending)
       ELSE EditorUnchanged
    /\ UNCHANGED <<lifeVars, ringVars>>


(***************************************************************************)
(* Discovery: AppScanner.get_all_actions                                   *)
(***************************************************************************)
\* The characters of the identifiers, file names and display names that
\* discovery compares, strips and sorts.
Text(s) ==
    CASE s = "" -> <<>>
      [] s = "a" -> <<"a">>
      [] s = "A" -> <<"A">>
      [] s = "B" -> <<"B">>
      [] s = "a.desktop" -> <<"a", ".", "d", "e", "s", "k", "t", "o", "p">>
      [] s = "b.desktop" -> <<"b", ".", "d", "e", "s", "k", "t", "o", "p">>
      [] s = "a.txt" -> <<"a", ".", "t", "x", "t">>

\* Python's text.endswith(suffix)
EndsWith(text, suffix) ==
    /\ Len(suffix) <= Len(text)
    /\ SubSeq(text, Len(text) - Len(suffix) + 1, Len(text)) = suffix

DotDesktop == <<".", "d", "e", "s", "k", "t", "o", "p">>

\* Python's text[:-8]
DropLast8(text) == SubSeq(text, 1, Len(text) - 8)

\* get_all_actions: norm_id = app_id[:-8] if app_id.endswith(".desktop") else app_id
norm_id(app_id) ==
    IF EndsWith(Text(app_id), DotDesktop) THEN DropLast8(Text(app_id)) ELSE Text(app_id)

\* The characters in code-point order, and a character's rank in it.
CodePoints == <<".", "A", "B", "a", "b", "d", "e", "k", "o", "p", "s", "t", "x">>
Ord(ch) == CHOOSE k \in 1..Len(CodePoints) : CodePoints[k] = ch

\* Python's text.lower()
Lower(text) ==
    [k \in 1..Len(text) |-> CASE text[k] = "A" -> "a" [] text[k] = "B" -> "b"
                              [] OTHER -> text[k]]

RECURSIVE StrLess(_, _)
\* Python's a < b on str
StrLess(a, b) ==
    IF b = <<>> THEN FALSE
    ELSE IF a = <<>> THEN TRUE
    ELSE IF Head(a) # Head(b) THEN Ord(Head(a)) < Ord(Head(b))
    ELSE StrLess(Tail(a), Tail(b))

\* A faulty sort key that keeps the case of the name.
NameKey_cased(entry) == Text(DictGet(entry, "name").s)

\* get_all_actions: key=lambda x: x["name"].lower()
NameKey(entry) == Lower(Text(DictGet(entry, "name").s))

RECURSIVE Insert(_, _)
\* One step of a stable sort: entry goes after the entries whose key is not greater.
Insert(sorted_list, entry) ==
    IF sorted_list = <<>> THEN <<entry>>
    ELSE IF StrLess(NameKey(entry), NameKey(Head(sorted_list)))
         THEN <<entry>> \o sorted_list
         ELSE <<Head(sorted_list)>> \o Insert(Tail(sorted_list), entry)

RECURSIVE sorted(_)
\* Python's sorted(list, key=...), which is stable.
sorted(list) ==
    IF list = <<>> THEN <<>>
    ELSE Insert(sorted(SubSeq(list, 1, Len(list) - 1)), list[Len(list)])

\* get_all_actions: builtins
builtins == <<DescMedia, DescFiles, DescScreenshot, DescPreferences>>

\* get_all_actions: the entry appended for an application the registry shows.
RegistryEntry(app) ==
    PyDict(<<KV("name", PyStr(app.name)), KV("icon", PyStr("system-run-symbolic")),
             KV("type", PyStr("app")),
             KV("action", PyStr(IF app.id # "" THEN app.id ELSE app.exe)),
             KV("desc", PyStr("")), KV("group", PyStr("Applications"))>>)

\* The applications the registry may report: with the suffixed identifier,
\* with a bare one, with none (the executable stands in), shown or not.
RegistryApps ==
    {[id |-> "a.desktop", name |-> "A", exe |-> "a", shown |-> TRUE],
     [id |-> "a.desktop", name |-> "A", exe |-> "a", shown |-> FALSE],
     [id |-> "b.desktop", name |-> "B", exe |-> "a", shown |-> TRUE],
     [id |-> "a", name |-> "a", exe |-> "a", shown |-> TRUE],
     [id |-> "", name |-> "B", exe |-> "a", shown |-> TRUE]}

\* get_all_actions: scan_paths ($HOME written as ~)
scan_paths ==
    <<"/var/lib/flatpak/exports/share/applications",
      "~/.local/share/flatpak/exports/share/applications",
      "/run/host/usr/share/applications",
      "/run/host/usr/local/share/applications",
      "~/.local/share/applications",
      "/usr/share/applications">>

\* _parse_desktop_file: "flatpak" in path.lower()
IsFlatpakPath(path) == path \in {scan_paths[1], scan_paths[2]}

\* The file names a search location may hold.
FileNames == {"a.desktop", "b.desktop", "a.txt"}

\* The Name= a .desktop file carries ("" when it carries none).
DesktopName(file_name) == IF file_name = "a.desktop" THEN "a" ELSE ""

\* AppScanner._parse_desktop_file(path, file_name): name or file_name
parse_desktop_file(path, file_name) ==
    ParsedDesktopFile(IF DesktopName(file_name) # "" THEN DesktopName(file_name)
                      ELSE file_name,
                      "system-run-symbolic", file_name, "", FALSE, IsFlatpakPath(path))

Scan(seen_ids, found) == [seen_ids |-> seen_ids, found |-> found]

RECURSIVE ScanRegistry(_, _)
\* get_all_actions, lines 30-47: every shown application is appended; its
\* normalized identifier, when it has one, joins seen_ids.
ScanRegistry(list, acc) ==
    IF list = <<>> THEN acc
    ELSE LET app == Head(list) IN
         ScanRegistry(Tail(list),
            IF app.shown
            THEN Scan(IF app.id # "" THEN acc.seen_ids \cup {norm_id(app.id)}
                      ELSE acc.seen_ids,
                      Append(acc.found, RegistryEntry(app)))
            ELSE acc)

RECURSIVE ScanFiles(_, _, _)
\* get_all_actions, lines 67-76: the .desktop files of one listing whose
\* normalized identifier is not yet in seen_ids.
ScanFiles(path, files, acc) ==
    IF files = <<>> THEN acc
    ELSE LET file_name == Head(files)
             id == DropLast8(Text(file_name))
         IN ScanFiles(path, Tail(files),
               IF ~EndsWith(Text(file_name), DotDesktop) \/ id \in acc.seen_ids
               THEN acc
               ELSE Scan(acc.seen_ids \cup {id},
                         Append(acc.found, parse_desktop_file(path, file_name))))

RECURSIVE ScanPaths(_, _, _)
\* get_all_actions, lines 61-79: the search locations in list order; one that
\* does not exist or cannot be listed contributes nothing.
ScanPaths(p, tree, acc) ==
    IF p > Len(scan_paths) THEN acc
    ELSE ScanPaths(p + 1, tree,
            IF tree[p].exists /\ tree[p].listable
            THEN ScanFiles(scan_paths[p], tree[p].files, acc)
            ELSE acc)

\* AppScanner.get_all_actions()
get_all_actions(registry, tree) ==
    builtins
        \o sorted(ScanPaths(1, tree, ScanRegistry(registry, Scan({}, <<>>))).found)
        \o <<DescCustom>>

\* No search location exists.
NoDirs == [p \in 1..Len(scan_paths) |-> [exists |-> FALSE, listable |-> TRUE, files |-> <<>>]]

\* Nothing installed and discovery not run.
\* No ShakeListener constructed.
NoShake ==
    [running |-> FALSE, sensitivity |-> 0, needed_reversals |-> 0, reversals |-> {},
     last_x_dir |-> 0, last_y_dir |-> 0, detected |-> FALSE]

NoScan ==
    /\ apps = <<>>
    /\ dirs = NoDirs
    /\ actions = <<>>

\* Nothing presented and nothing tracked: the pointer at the origin,
\* target_x = target_y = 0 as __init__ leaves them.
NoPlace ==
    [pointer |-> <<0, 0>>, over |-> <<>>, target |-> <<0, 0>>, pending |-> {}, log |-> <<>>]

(***************************************************************************)
(* Label placement: quickeyWindow._get_label_pos                           *)
(***************************************************************************)
\* Lengths are kept as integers in millionths of half a pixel.
Unit == 2000000

\* math.cos of a multiple of 45 degrees, in millionths.  At 90 and 270 degrees
\* the float is some 6e-17, which vanishes when added to 300.
Cos(deg) ==
    CASE deg % 360 = 0 -> 1000000
      [] deg % 360 \in {45, 315} -> 707107
      [] deg % 360 \in {90, 270} -> 0
      [] deg % 360 \in {135, 225} -> -707107
      [] deg % 360 = 180 -> -1000000

\* math.sin
Sin(deg) == Cos(deg - 90)

\* A faulty rounding that truncates.
Round_floor(v) == v \div Unit

\* Python's int(round(v)): to the nearest integer, a tie to the even one.
Round(v) ==
    LET q == v \div Unit
        r == v % Unit
    IN IF 2 * r < Unit THEN q
       ELSE IF 2 * r > Unit THEN q + 1
       ELSE IF q % 2 = 0 THEN q ELSE q + 1

\* _get_label_pos: bx, by, the centre of the button
ButtonCentre(deg, base_radius) ==
    [x |-> 300 * Unit + 2 * base_radius * Cos(deg),
     y |-> 300 * Unit + 2 * base_radius * Sin(deg)]

\* quickeyWindow._get_label_pos(nw, nh, angle, base_radius, gap, button_radius),
\* the angle in degrees
get_label_pos(nw, nh, deg, base_radius, gap, button_radius) ==
    LET d == deg % 360
        b == ButtonCentre(deg, base_radius)
        anchor_x == b.x + 2 * (button_radius + gap) * Cos(deg)
        anchor_y == b.y + 2 * (button_radius + gap) * Sin(deg)
        lx == IF d \in {90, 270} THEN 300 * Unit - nw * (Unit \div 2)
              ELSE IF d = 0 THEN b.x + (button_radius + gap) * Unit
              ELSE IF d = 180 THEN b.x - (button_radius + gap + nw) * Unit
              ELSE IF Cos(deg) > 0 THEN anchor_x ELSE anchor_x - nw * Unit
        ly == IF d = 270 THEN b.y - (button_radius + gap + nh) * Unit
              ELSE IF d = 90 THEN b.y + (button_radius + gap) * Unit
              ELSE IF d \in {0, 180} THEN 300 * Unit - nh * (Unit \div 2)
              ELSE IF Sin(deg) > 0 THEN anchor_y ELSE anchor_y - nh * Unit
    IN [x |-> Round(lx), y |-> Round(ly)]

\* len(text) of the label texts of the typical configuration.
TextLen(name) ==
    CASE name = PyStr("Media") -> 5
      [] name = PyStr("Files") -> 5
      [] name = PyStr("Screenshot") -> 10
      [] name = PyStr("Preferences") -> 11
      [] name = PyStr("Calculator") -> 10
      [] name = PyStr("echo") -> 4
      [] name = PyStr("Prefix") -> 6
      [] OTHER -> 5

\* lb.get_preferred_width() / get_preferred_height() under a font whose
\* characters are char_width wide and line_height high.
Measured(data, char_width, line_height) ==
    [nw |-> char_width * TextLen(DictGet(data, "name")), nh |-> line_height]

\* refresh_button_ui / reposition_all_labels: the label of slot index is
\* measured and moved; gap = 66 if the slot has satellites else 15.
MoveLabel(index, char_width, line_height) ==
    LET size == Measured(action_data[index + 1], char_width, line_height)
        pos == get_label_pos(size.nw, size.nh, refresh_angle(index), 100,
                             IF Len(sd[index + 1]) > 0 THEN 66 ELSE 15, 24)
    IN [nw |-> size.nw, nh |-> size.nh, x |-> pos.x, y |-> pos.y]

(***************************************************************************)
(* Initial states and the store specification                              *)
(***************************************************************************)
\* Before quickeyWindow is constructed there are no ring widgets.
NoRing ==
    /\ action_data = <<>>
    /\ sd = <<>>
    /\ btn_hidden = <<>>
    /\ sd_hidden = <<>>
    /\ lb_visible = <<>>
    /\ sl_visible = <<>>
    /\ close_hidden = FALSE
    /\ angle = <<>>

\* quickeyWindow.setup_ring_menu over the loaded entries (all dicts): every
\* ring button and satellite starts with the class "hidden", no label visible.
SetupRing(items, revealed) ==
    /\ action_data = items
    /\ sd = [i \in Slots |-> rebuild_sub_buttons(items[i])]
    /\ btn_hidden = [i \in Slots |-> ~revealed]
    /\ sd_hidden = [i \in Slots |-> TRUE]
    /\ lb_visible = [i \in Slots |-> FALSE]
    /\ sl_visible = [i \in Slots |-> {}]
    /\ close_hidden = FALSE
    /\ angle = [i \in Slots |->
                  Refreshed([btn |-> setup_angle(i - 1, Len(items)), lb |-> 0, sd |-> {}],
                            i - 1, items[i])]

NoHistory ==
    /\ hide_order = <<>>
    /\ teardowns = <<>>
    /\ requests = 0
    /\ first_quit_app = "none"
    /\ last = NoOutcome

EditorClosed ==
    /\ pref_open = FALSE
    /\ buttons = <<>>
    /\ rows = Identity
    /\ populate_pending = FALSE

\* PreferencesWindow.__init__: the editor holds the loaded entries, one row each.
EditorOpen ==
    /\ pref_open = TRUE
    /\ buttons = load_configured_buttons(settings)
    /\ rows = Identity
    /\ populate_pending = FALSE

\* What the initial states share: nothing written, no close request yet.
Quiet ==
    /\ wrote = FALSE
    /\ ops = 0
    /\ app_running = TRUE
    /\ is_quitting = FALSE
    /\ portal = "none"
    /\ NoHistory

\* The store and its editor, while no ring window exists: the editor is
\* closed or has just been constructed (its constructor raises on a stored
\* entry that is not a dict).
InitStore ==
    /\ settings \in StoredStrings
    /\ Quiet
    /\ NoScan
    /\ shake = NoShake
    /\ label_pos = <<>>
    /\ place = NoPlace
    /\ \/ EditorClosed
       \/ AllDicts(load_configured_buttons(settings)) /\ EditorOpen
    /\ win = "none" /\ sync_window = FALSE /\ visible = FALSE /\ focused = FALSE
    /\ timers = EmptyBag
    /\ NoRing

\* One more operation within the budget of max.
Operation(max) == ops < max /\ ops' = ops + 1

NextStore ==
    \/ \E index \in Indices : Operation(MaxOps) /\ ResetSlot(index)
          /\ UNCHANGED asideVars
    \/ Operation(MaxOps) /\ SaveLoaded /\ UNCHANGED asideVars
    \/ \E index \in Indices, result \in PickerResults({}) :
          Operation(MaxOps) /\ on_replace_button(index, result) /\ UNCHANGED asideVars
    \/ \E index \in Indices : Operation(MaxOps) /\ on_delete(index) /\ UNCHANGED asideVars
    \/ \E source_idx, dest_idx \in 0..(NumSlots - 1) :
          Operation(MaxOps) /\ on_reorder(source_idx, dest_idx) /\ UNCHANGED asideVars
    \/ \E r \in Slots, sub_data \in PickerResults({}) \cup {SlotFile} :
          Operation(MaxOps) /\ add_sub_button(r, sub_data) /\ UNCHANGED asideVars
    \/ \E r \in Slots, index \in 0..MaxSubs :
          Operation(MaxOps) /\ remove_sub_button(r, index) /\ UNCHANGED asideVars
    \/ UNCHANGED ops /\ populate_buttons /\ UNCHANGED asideVars

SpecStore == InitStore /\ [][NextStore]_vars

\* The store under an idle ring window on screen (setup_ring_menu raises on a
\* stored entry that is not a dict), the editor closed.
InitRingStore ==
    /\ settings \in StoredStrings
    /\ AllDicts(window_load_configured_buttons(settings))
    /\ Quiet
    /\ NoScan
    /\ shake = NoShake
    /\ label_pos = <<>>
    /\ place = NoPlace
    /\ EditorClosed
    /\ win = "shown" /\ sync_window = FALSE /\ visible = TRUE /\ focused = TRUE
    /\ timers = EmptyBag
    /\ SetupRing(window_load_configured_buttons(settings), TRUE)

NextRingStore ==
    \/ \E index \in Indices : Operation(MaxOps) /\ ResetSlot(index)
          /\ UNCHANGED asideVars
    \/ Operation(MaxOps) /\ SaveLoaded /\ UNCHANGED asideVars
    \/ \E index \in Indices : Operation(MaxOps) /\ on_remove_action(index)
          /\ UNCHANGED asideVars
    \/ UNCHANGED ops /\ refresh_all_ring_buttons /\ UNCHANGED asideVars

SpecRingStore == InitRingStore /\ [][NextRingStore]_vars

(***************************************************************************)
(* The ring window's life: launch, hover, dispatch, close.                 *)
(***************************************************************************)
quitVars == <<is_quitting, requests, first_quit_app, hide_order, btn_hidden,
              sd_hidden, sl_visible, close_hidden, teardowns>>

\* GLib.timeout_add / idle_add, and a callback leaving the bag when it runs.
Schedule(tm, t) == tm (+) SetToBag({t})
Fired(t) == timers (-) SetToBag({t})
Pending(t) == app_running /\ BagIn(t, timers)

\* History: the handler ran on slot index with this outcome.
\* The handlers below start with logger.info (window.py 247, 293, 383;
\* action_handler.py 17), so the attempt is logged whatever happens next.
Outcome(handler, index, spawn, error_logged, close_requested) ==
    [NoOutcome EXCEPT !.handler = handler, !.index = index, !.spawn = spawn,
                      !.attempt_logged = TRUE, !.error_logged = error_logged,
                      !.close_requested = close_requested]

Ran(handler, index, spawn, error_logged, close_requested) ==
    last' = Outcome(handler, index, spawn, error_logged, close_requested)

\* A faulty order: clockwise from index 0.
QuitIndices_clockwise(num) == [k \in 1..num |-> k - 1]

\* animate_quit: indices = [0] + list(range(num - 1, 0, -1))
QuitIndices(num) == <<0>> \o [k \in 1..(num - 1) |-> num - k]

\* The teardown animate_quit schedules for should_quit_app.
Teardown(should_quit_app) == IF should_quit_app THEN "app.quit" ELSE "destroy"

\* A faulty hide_button that hides the close control and schedules nothing.
hide_button_stalls(indices, should_quit_app, tm) ==
    IF indices # <<>>
    THEN LET idx == Head(indices) IN
         /\ btn_hidden' = [btn_hidden EXCEPT ![idx + 1] = TRUE]
         /\ sd_hidden' = [sd_hidden EXCEPT ![idx + 1] = TRUE]
         /\ sl_visible' = [sl_visible EXCEPT ![idx + 1] = {}]
         /\ hide_order' = Append(hide_order, idx)
         /\ timers' = Schedule(tm, Timer("hide_button", Tail(indices), "", should_quit_app))
         /\ UNCHANGED <<close_hidden, teardowns>>
    ELSE /\ close_hidden' = TRUE
         /\ timers' = tm
         /\ UNCHANGED <<btn_hidden, sd_hidden, sl_visible, hide_order, teardowns>>

\* animate_quit.hide_button(indices), leaving the pending callbacks tm.
hide_button(indices, should_quit_app, tm) ==
    IF indices # <<>>
    THEN LET idx == Head(indices) IN
         /\ btn_hidden' = [btn_hidden EXCEPT ![idx + 1] = TRUE]
         /\ sd_hidden' = [sd_hidden EXCEPT ![idx + 1] = TRUE]
         /\ sl_visible' = [sl_visible EXCEPT ![idx + 1] = {}]
         /\ hide_order' = Append(hide_order, idx)
         /\ timers' = Schedule(tm, Timer("hide_button", Tail(indices), "", should_quit_app))
         /\ UNCHANGED <<close_hidden, teardowns>>
    ELSE /\ close_hidden' = TRUE
         /\ teardowns' = Append(teardowns, Teardown(should_quit_app))
         /\ timers' = Schedule(tm, Timer(Teardown(should_quit_app), <<>>, "", should_quit_app))
         /\ UNCHANGED <<btn_hidden, sd_hidden, sl_visible, hide_order>>

\* A faulty animate_quit without the is_quitting guard.
animate_quit_unguarded(should_quit_app, tm) ==
    /\ requests' = IF requests < MaxRequests THEN requests + 1 ELSE requests
    /\ is_quitting' = TRUE
    /\ first_quit_app' = Teardown(should_quit_app)
    /\ hide_button(QuitIndices(Len(action_data)), should_quit_app, tm)

\* quickeyWindow.animate_quit(should_quit_app), leaving the pending callbacks
\* tm (the ring always has its 8 buttons, so num > 0).
animate_quit(should_quit_app, tm) ==
    /\ requests' = IF requests < MaxRequests THEN requests + 1 ELSE requests
    /\ IF is_quitting
       THEN /\ timers' = tm
            /\ UNCHANGED <<is_quitting, first_quit_app, hide_order, btn_hidden,
                           sd_hidden, sl_visible, close_hidden, teardowns>>
       ELSE /\ is_quitting' = TRUE
            /\ first_quit_app' = Teardown(should_quit_app)
            /\ hide_button(QuitIndices(Len(action_data)), should_quit_app, tm)

\* A handler that returns without calling animate_quit.
NoQuit(tm) == timers' = tm /\ UNCHANGED quitVars

\* The user can act on the ring: shown, visible, and still sensitive.
Interactive == app_running /\ win = "shown" /\ visible /\ ~is_quitting

\* Application.show_preferences: a PreferencesWindow is constructed.
show_preferences ==
    /\ pref_open' = TRUE
    /\ buttons' = load_configured_buttons(settings)
    /\ rows' = Identity
    /\ populate_pending' = FALSE

\* _finalize_reposition (60 ms after reposition_and_present): the sync window
\* goes, the ring window is shown and presented, animate_launch starts.
\* show_all maps the window, on which the one-shot _on_map_event runs
\* reposition_all_labels.
\* On a window that was destroyed meanwhile, show_all and present may or may
\* not bring it back.
finalize_reposition ==
    /\ Pending(Idle("_finalize_reposition"))
    /\ sync_window' = BagIn(Idle("_finalize_reposition"), Fired(Idle("_finalize_reposition")))
    /\ win' \in (IF win = "destroyed" THEN {"destroyed", "shown"} ELSE {"shown"})
    /\ visible' = (win' = "shown")
    /\ focused' = (win' = "shown")
    /\ NoQuit(Schedule(Fired(Idle("_finalize_reposition")),
                       Timer("reveal_button", <<0>>, "", FALSE)))
    /\ angle' = [i \in Slots |-> [angle[i] EXCEPT !.lb = reposition_angle(i - 1)]]
    /\ UNCHANGED <<storeVars, ops, editorVars, app_running, portal, action_data, sd,
                   lb_visible, last>>

\* Application.do_activate while the application already has its ring window
\* (the one window of get_windows() that is a quickeyWindow): the window is
\* kept and reposition_and_present runs on it again, which shows a new sync
\* window and queues _finalize_reposition.  Activation without a window
\* constructs one, which is the initial state.
do_activate ==
    /\ app_running
    /\ win \in {"syncing", "shown"}
    /\ Operation(MaxActivations)
    /\ sync_window' = TRUE
    /\ timers' = Schedule(timers, Idle("_finalize_reposition"))
    /\ UNCHANGED <<storeVars, editorVars, win, app_running, is_quitting, visible, focused,
                   portal, ringVars, histVars>>

\* A faulty reveal_button that does not schedule the next step.
reveal_button_once(index) ==
    LET t == Timer("reveal_button", <<index>>, "", FALSE) IN
    /\ Pending(t)
    /\ timers' = Fired(t)
    /\ btn_hidden' = IF index < Len(action_data)
                     THEN [btn_hidden EXCEPT ![index + 1] = FALSE]
                     ELSE btn_hidden
    /\ UNCHANGED <<storeVars, ops, editorVars, lifeVars, action_data, angle, sd, sd_hidden,
                   lb_visible, sl_visible, close_hidden, histVars>>

\* animate_launch.reveal_button(index)
reveal_button(index) ==
    LET t == Timer("reveal_button", <<index>>, "", FALSE) IN
    /\ Pending(t)
    /\ IF index < Len(action_data)
       THEN /\ btn_hidden' = [btn_hidden EXCEPT ![index + 1] = FALSE]
            /\ timers' = Schedule(Fired(t), Timer("reveal_button", <<index + 1>>, "", FALSE))
       ELSE /\ timers' = Fired(t)
            /\ UNCHANGED btn_hidden
    /\ UNCHANGED <<storeVars, ops, editorVars, lifeVars, action_data, angle, sd, sd_hidden,
                   lb_visible, sl_visible, close_hidden, histVars>>

\* A faulty on_btn_enter that shows the label and satellites of button i
\* and hides nothing.
on_btn_enter_additive(i) ==
    /\ Interactive
    /\ lb_visible' = [lb_visible EXCEPT ![i] = TRUE]
    /\ sd_hidden' = [sd_hidden EXCEPT ![i] = FALSE]
    /\ UNCHANGED sl_visible
    /\ UNCHANGED <<storeVars, ops, editorVars, lifeVars, action_data, angle, sd, btn_hidden,
                   close_hidden, timers, histVars>>

\* setup_ring_menu.on_btn_enter on ring button i (1-based)
on_btn_enter(i) ==
    /\ Interactive
    /\ lb_visible' = [k \in Slots |-> k = i]
    /\ sd_hidden' = [k \in Slots |-> k # i]
    /\ sl_visible' = [k \in Slots |-> {}]
    /\ UNCHANGED <<storeVars, ops, editorVars, lifeVars, action_data, angle, sd, btn_hidden,
                   close_hidden, timers, histVars>>

\* _rebuild_sub_buttons.on_sub_enter on satellite j of ring button i: the
\* pointer reaches a satellite the ring shows, the first since the main
\* button was entered.
on_sub_enter(i, j) ==
    /\ Interactive
    /\ j \in 1..Len(sd[i])
    /\ ~sd_hidden[i]
    /\ \A k \in Slots : sl_visible[k] = {}
    /\ lb_visible' = [lb_visible EXCEPT ![i] = FALSE]
    /\ sl_visible' = [sl_visible EXCEPT ![i] = @ \cup {j}]
    /\ UNCHANGED <<storeVars, ops, editorVars, lifeVars, action_data, angle, sd, btn_hidden,
                   sd_hidden, close_hidden, timers, histVars>>

\* Text, as the sequence of its characters, for the names that
\* on_sub_button_clicked takes apart.
Word(w) ==
    CASE w = "screenshot" -> <<"s", "c", "r", "e", "e", "n", "s", "h", "o", "t">>
      [] w = "area" -> <<"a", "r", "e", "a">>
      [] w = "window" -> <<"w", "i", "n", "d", "o", "w">>
      [] w = "full" -> <<"f", "u", "l", "l">>
      [] w = "5s" -> <<"5", "s">>
      [] w = "_" -> <<"_">>

ScreenshotModes == {"area", "window", "full"}

\* The characters of a satellite action of the Screenshot button.
Spell(action) ==
    CASE action = "screenshot_area" -> Word("screenshot") \o Word("_") \o Word("area")
      [] action = "screenshot_window" -> Word("screenshot") \o Word("_") \o Word("window")
      [] action = "screenshot_full" -> Word("screenshot") \o Word("_") \o Word("full")
      [] action = "screenshot_area_5s" ->
            Word("screenshot") \o Word("_") \o Word("area") \o Word("_") \o Word("5s")
      [] action = "screenshot_window_5s" ->
            Word("screenshot") \o Word("_") \o Word("window") \o Word("_") \o Word("5s")
      [] action = "screenshot_full_5s" ->
            Word("screenshot") \o Word("_") \o Word("full") \o Word("_") \o Word("5s")

\* The mode name some characters spell ("?" when they spell none).
Unspell(text) ==
    IF \E mode \in ScreenshotModes : Word(mode) = text
    THEN CHOOSE mode \in ScreenshotModes : Word(mode) = text
    ELSE "?"

StartsWith(text, prefix) ==
    Len(prefix) <= Len(text) /\ SubSeq(text, 1, Len(prefix)) = prefix

\* Python's `sub in text`
Contains(text, sub) ==
    \E k \in 0..(Len(text) - Len(sub)) : SubSeq(text, k + 1, k + Len(sub)) = sub

RECURSIVE Replace(_, _, _)
\* Python's text.replace(old, new), old not empty
Replace(text, old, new) ==
    IF text = <<>> THEN <<>>
    ELSE IF StartsWith(text, old)
         THEN new \o Replace(SubSeq(text, Len(old) + 1, Len(text)), old, new)
         ELSE <<Head(text)>> \o Replace(Tail(text), old, new)

\* on_sub_button_clicked: mode = action.replace("screenshot_", "")
Mode(action) == Replace(Spell(action), Word("screenshot") \o Word("_"), <<>>)

\* on_sub_button_clicked: delay = 5 if "_5s" in mode else 0
Delay(action) == IF Contains(Mode(action), Word("_") \o Word("5s")) THEN 5 ELSE 0

\* A faulty clean_mode that keeps the "_5s" suffix.
CleanMode_keep(action) == Unspell(Mode(action))

\* on_sub_button_clicked: clean_mode = mode.replace("_5s", "")
CleanMode(action) == Unspell(Replace(Mode(action), Word("_") \o Word("5s"), <<>>))

\* on_sub_button_clicked: if delay > 0
IsDelayed(action) == Delay(action) > 0

MprisCommands == {"Previous", "Next", "Backward10", "Forward10", "PlayPause", "Stop"}

\* What an external call (spawn, D-Bus) can do.
Outcomes == {"ok", "failed"}

\* quickeyWindow.handle_screenshot_portal(mode): the request is issued and the
\* window hidden, or an exception (before or after "Requesting screenshot" is
\* logged and the window hidden) is logged and answered with animate_quit().
\* logged tells whether the caller has logged the click already.
handle_screenshot_portal(mode, outcome, index, logged, tm) ==
    /\ outcome \in Outcomes
    /\ IF outcome = "ok"
       THEN /\ visible' = FALSE
            /\ portal' = "pending"
            /\ NoQuit(tm)
            /\ last' = [Outcome("handle_screenshot_portal", index, "ok", FALSE, FALSE)
                           EXCEPT !.mode = mode]
       ELSE /\ visible' \in {visible, FALSE}
            /\ UNCHANGED portal
            /\ animate_quit(TRUE, tm)
            /\ \E requesting \in {logged, TRUE} :
                  last' = [Outcome("handle_screenshot_portal", index, "failed", TRUE, TRUE)
                              EXCEPT !.mode = mode, !.attempt_logged = requesting]

\* A faulty dispatch that closes with should_quit_app False.
SpawnThenQuit_destroy(handler, index, outcome) ==
    /\ outcome \in Outcomes
    /\ IF outcome = "ok"
       THEN /\ animate_quit(FALSE, timers)
            /\ Ran(handler, index, "ok", FALSE, TRUE)
       ELSE /\ NoQuit(timers)
            /\ Ran(handler, index, "failed", TRUE, FALSE)

\* A try block that spawns and then calls animate_quit(); the except branch
\* only logs.
SpawnThenQuit(handler, index, outcome) ==
    /\ outcome \in Outcomes
    /\ IF outcome = "ok"
       THEN /\ animate_quit(TRUE, timers)
            /\ Ran(handler, index, "ok", FALSE, TRUE)
       ELSE /\ NoQuit(timers)
            /\ Ran(handler, index, "failed", TRUE, FALSE)

\* A faulty editor branch that also closes the ring.
OpenEditor_closing(i) ==
    /\ ~pref_open
    /\ show_preferences
    /\ animate_quit(TRUE, timers)
    /\ Ran("on_button_clicked", i - 1, "none", FALSE, TRUE)

\* on_button_clicked on an empty slot or on the Preferences button:
\* self.app.show_preferences(parent=self), and nothing else.
OpenEditor(i) ==
    /\ ~pref_open
    /\ show_preferences
    /\ NoQuit(timers)
    /\ Ran("on_button_clicked", i - 1, "none", FALSE, FALSE)

\* quickeyWindow.on_button_clicked on ring button i (1-based)
on_button_clicked(i, outcome) ==
    LET data == action_data[i]
        action_type == DictGet(data, "type")
        action == DictGet(data, "action")
        opens_editor == \/ action_type = PyStr("empty")
                        \/ action_type = PyStr("internal") /\ action = PyStr("preferences")
        Nothing == /\ outcome = "none"
                   /\ NoQuit(timers)
                   /\ Ran("on_button_clicked", i - 1, "none", FALSE, FALSE)
    IN
    /\ Interactive
    /\ IF opens_editor
       THEN /\ outcome = "none"
            /\ OpenEditor(i)
            /\ UNCHANGED <<visible, portal>>
       ELSE /\ UNCHANGED editorVars
            /\ IF action_type = PyStr("internal") /\ action = PyStr("screenshot")
               THEN handle_screenshot_portal("full", outcome, i - 1, TRUE, timers)
               ELSE /\ UNCHANGED <<visible, portal>>
                    /\ CASE action_type = PyStr("internal") /\ action = PyStr("media") ->
                              /\ outcome \in Outcomes
                              /\ animate_quit(TRUE, timers)
                              /\ Ran("handle_media_portal", i - 1, outcome,
                                     outcome = "failed", TRUE)
                         [] action_type = PyStr("internal") /\ action = PyStr("files") ->
                              SpawnThenQuit("handle_files_portal", i - 1, outcome)
                         [] action_type \in {PyStr("command"), PyStr("app")} ->
                              SpawnThenQuit("on_button_clicked", i - 1, outcome)
                         [] action_type = PyStr("prefix") ->
                              /\ outcome = "none"
                              /\ animate_quit(TRUE, timers)
                              /\ Ran("on_button_clicked", i - 1, "none", FALSE, TRUE)
                         [] OTHER -> Nothing
    /\ UNCHANGED <<storeVars, ops, win, app_running, sync_window, focused,
                   action_data, angle, sd, lb_visible>>

\* The names on the session bus that start with "org.mpris.MediaPlayer2."
\* (written without the prefix).
Players == {"vlc", "spotify"}

\* The method call handle_mpris_command sends to one player: the command
\* itself for PlayPause, Next, Previous and Stop; Seek by 10 s in microseconds
\* for Forward10 and Backward10.
mpris_call(player, cmd) ==
    [player |-> player,
     method |-> IF cmd \in {"Forward10", "Backward10"} THEN "Seek" ELSE cmd,
     arg |-> CASE cmd = "Forward10" -> 10 * 1000000
               [] cmd = "Backward10" -> (-10) * 1000000
               [] OTHER -> 0]

\* A faulty handle_mpris_command that stops after the first player.
handle_mpris_command_first(cmd, players) ==
    IF players = {} THEN {} ELSE {mpris_call(CHOOSE p \in players : TRUE, cmd)}

\* quickeyWindow.handle_mpris_command(cmd) when nothing raises: one call per
\* player.
handle_mpris_command(cmd, players) == {mpris_call(p, cmd) : p \in players}

\* handle_mpris_command(cmd) under try / except: with outcome "failed" an
\* exception ends it before the last call, anywhere from bus_get_sync on.
MprisSent(cmd, players, outcome) ==
    IF outcome = "ok" THEN {handle_mpris_command(cmd, players)}
    ELSE {calls \in SUBSET handle_mpris_command(cmd, players) :
             calls # handle_mpris_command(cmd, players) \/ players = {}}

\* quickeyWindow.on_sub_button_clicked on satellite j of ring button i
on_sub_button_clicked(i, j, outcome) ==
    LET action == sd[i][j] IN
    /\ Interactive
    /\ j \in 1..Len(sd[i])
    /\ IF action \in MprisCommands
       THEN /\ outcome \in Outcomes
            /\ RefreshAll(window_load_configured_buttons(settings))
            /\ \E players \in SUBSET Players :
                  \E calls \in MprisSent(action, players, outcome) :
                     last' = [Outcome("on_sub_button_clicked", i - 1, outcome,
                                      outcome = "failed", FALSE)
                                 EXCEPT !.cmd = action, !.players = players,
                                        !.sent = calls]
            /\ UNCHANGED <<visible, portal, timers, is_quitting, requests, first_quit_app,
                           hide_order, btn_hidden, close_hidden, teardowns>>
       ELSE /\ UNCHANGED <<action_data, angle, sd>>
            /\ IF IsDelayed(action)
               THEN /\ outcome = "none"
                    /\ visible' = FALSE
                    /\ UNCHANGED portal
                    /\ NoQuit(Schedule(timers, Timer("handle_screenshot_portal",
                                                     <<Delay(action)>>,
                                                     CleanMode(action), FALSE)))
                    /\ last' = [Outcome("on_sub_button_clicked", i - 1, "none", FALSE, FALSE)
                                   EXCEPT !.mode = CleanMode(action)]
               ELSE handle_screenshot_portal(CleanMode(action), outcome, i - 1, TRUE, timers)
    /\ UNCHANGED <<storeVars, ops, editorVars, win, app_running, sync_window, focused,
                   lb_visible>>

\* The 5 s timeout of a delayed screenshot: handle_screenshot_portal(clean_mode)
delayed_screenshot(t, outcome) ==
    /\ Pending(t)
    /\ t.cb = "handle_screenshot_portal"
    /\ handle_screenshot_portal(t.s, outcome, 0, FALSE, Fired(t))
    /\ UNCHANGED <<storeVars, ops, editorVars, win, app_running, sync_window, focused,
                   action_data, angle, sd, lb_visible>>

\* quickeyWindow.on_screenshot_response: the portal's Response signal; whatever
\* it carries, "Finally quit".
on_screenshot_response ==
    /\ app_running
    /\ portal = "pending"
    /\ portal' = "answered"
    /\ animate_quit(TRUE, timers)
    /\ Ran("on_screenshot_response", 0, "ok", FALSE, TRUE)
    /\ UNCHANGED <<storeVars, ops, editorVars, win, app_running, sync_window, visible,
                   focused, action_data, angle, sd, lb_visible>>

\* What the close triggers leave alone.
TriggerFrame ==
    UNCHANGED <<storeVars, ops, editorVars, win, app_running, sync_window, visible,
                portal, action_data, angle, sd, lb_visible>>

\* close_btn "clicked": lambda x: self.animate_quit()
close_clicked ==
    /\ Interactive
    /\ animate_quit(TRUE, timers)
    /\ UNCHANGED <<focused, last>>
    /\ TriggerFrame

\* quickeyWindow._on_button_press: a click no child widget handled
on_button_press ==
    /\ Interactive
    /\ animate_quit(TRUE, timers)
    /\ UNCHANGED <<focused, last>>
    /\ TriggerFrame

\* animate_quit called on the visible ring with the flag its caller chooses.
animate_quit_call(should_quit_app) ==
    /\ app_running /\ win = "shown" /\ visible
    /\ animate_quit(should_quit_app, timers)
    /\ UNCHANGED <<focused, last>>
    /\ TriggerFrame

CheckFocus == Idle("check_focus")

\* quickeyWindow._on_focus_out: the window loses the input focus
on_focus_out ==
    /\ app_running /\ win = "shown" /\ focused
    /\ CopiesIn(CheckFocus, timers) < MaxFocusChecks
    /\ focused' = FALSE
    /\ NoQuit(IF is_quitting THEN timers ELSE Schedule(timers, CheckFocus))
    /\ UNCHANGED last
    /\ TriggerFrame

\* The window gets the input focus back (no handler is connected).
focus_in ==
    /\ app_running /\ win = "shown" /\ visible /\ ~focused
    /\ focused' = TRUE
    /\ NoQuit(timers)
    /\ UNCHANGED last
    /\ TriggerFrame

\* check_focus: any(w.__class__.__name__ == "PreferencesWindow" ...) over
\* a list that never holds one.
has_preferences_never == FALSE

\* check_focus: any(w.__class__.__name__ == "PreferencesWindow" for w in
\* self.app.get_windows())
has_preferences == pref_open

\* self.app.get_active_window(): the window of the application focused
\* last, which is the editor once the ring lost the focus to it.
get_active_window ==
    IF pref_open /\ ~focused THEN "PreferencesWindow" ELSE "quickeyWindow"

\* _on_focus_out.check_focus, 150 ms after the focus was lost.
check_focus ==
    /\ Pending(CheckFocus)
    /\ IF is_quitting \/ has_preferences \/ get_active_window # "quickeyWindow"
       THEN NoQuit(Fired(CheckFocus))
       ELSE animate_quit(TRUE, Fired(CheckFocus))
    /\ UNCHANGED <<focused, last>>
    /\ TriggerFrame

\* The pending hide_button(indices) of the close sequence
hide_button_timeout(t) ==
    /\ Pending(t)
    /\ t.cb = "hide_button"
    /\ hide_button(t.arg, t.q, Fired(t))
    /\ UNCHANGED <<is_quitting, requests, first_quit_app, last, focused>>
    /\ TriggerFrame

\* Application.quit, 120 ms after the close control was hidden
app_quit ==
    /\ Pending(Timer("app.quit", <<>>, "", TRUE))
    /\ app_running' = FALSE
    /\ NoQuit(Fired(Timer("app.quit", <<>>, "", TRUE)))
    /\ UNCHANGED <<storeVars, ops, editorVars, win, sync_window, visible, focused, portal,
                   action_data, angle, sd, lb_visible, last>>

\* Gtk.Window.destroy on the ring window: the application ends with its last
\* window unless show_preferences holds it.
DestroyWindow ==
    /\ win' = "destroyed"
    /\ visible' = FALSE
    /\ focused' = FALSE
    /\ app_running' = pref_open

\* self.destroy, 120 ms after the close control was hidden
destroy ==
    /\ Pending(Timer("destroy", <<>>, "", FALSE))
    /\ DestroyWindow
    /\ NoQuit(Fired(Timer("destroy", <<>>, "", FALSE)))
    /\ UNCHANGED <<storeVars, ops, editorVars, sync_window, portal, action_data, angle, sd,
                   lb_visible, last>>

\* Application.on_preferences_closed: the editor is destroyed and the hold
\* released.
on_preferences_closed ==
    /\ app_running /\ pref_open
    /\ pref_open' = FALSE
    /\ buttons' = <<>>
    /\ rows' = Identity
    /\ populate_pending' = FALSE
    /\ app_running' = (win \in {"syncing", "shown"})
    /\ NoQuit(timers)
    /\ UNCHANGED <<storeVars, ops, win, sync_window, visible, focused, portal,
                   action_data, angle, sd, lb_visible, last>>

\* A faulty _open_file whose fallback never asks to close.
open_file_stay(outcome, fallback) ==
    /\ outcome \in Outcomes
    /\ IF outcome = "ok"
       THEN /\ fallback = "none"
            /\ animate_quit(TRUE, timers)
            /\ Ran("ActionHandler._open_file", 0, "ok", FALSE, TRUE)
       ELSE /\ fallback \in Outcomes
            /\ NoQuit(timers)
            /\ last' = [Outcome("ActionHandler._open_file", 0, "failed", TRUE, FALSE)
                           EXCEPT !.fallback = fallback]

\* ActionHandler._open_file(path): the OpenURI portal call, then
\* animate_quit(); when it raises, the error is logged and xdg-open is spawned
\* as a fallback, again followed by animate_quit(); when that raises too, the
\* second error is logged.
open_file(outcome, fallback) ==
    /\ outcome \in Outcomes
    /\ IF outcome = "ok"
       THEN /\ fallback = "none"
            /\ animate_quit(TRUE, timers)
            /\ Ran("ActionHandler._open_file", 0, "ok", FALSE, TRUE)
       ELSE /\ fallback \in Outcomes
            /\ IF fallback = "ok" THEN animate_quit(TRUE, timers) ELSE NoQuit(timers)
            /\ last' = [Outcome("ActionHandler._open_file", 0, "failed", TRUE,
                                fallback = "ok")
                           EXCEPT !.fallback = fallback]

\* The types ActionHandler.execute handles without opening the editor or a
\* portal of the window.
ExecuteTypes == {"command", "app", "file", "prefix"}

\* ActionHandler.execute(action_type, action): _run_host_command and
\* _launch_app spawn a host process, _open_file opens a path, "prefix" only
\* closes.
execute(action_type, outcome, fallback) ==
    /\ Interactive
    /\ CASE action_type \in {"command", "app"} ->
              /\ fallback = "none"
              /\ SpawnThenQuit("ActionHandler.execute", 0, outcome)
         [] action_type = "file" -> open_file(outcome, fallback)
         [] action_type = "prefix" ->
              /\ outcome = "none" /\ fallback = "none"
              /\ animate_quit(TRUE, timers)
              /\ Ran("ActionHandler.execute", 0, "none", FALSE, TRUE)
    /\ UNCHANGED focused
    /\ TriggerFrame

\* The ring window just constructed by do_activate, reposition_and_present
\* under way: the sync window is up and _finalize_reposition is pending.
InitWin ==
    /\ settings = dumps(PyList(TypicalButtons))
    /\ Quiet
    /\ NoScan
    /\ shake = NoShake
    /\ label_pos = <<>>
    /\ place = NoPlace
    /\ EditorClosed
    /\ win = "syncing" /\ sync_window = TRUE /\ visible = FALSE /\ focused = FALSE
    /\ timers = SetToBag({Idle("_finalize_reposition")})
    /\ SetupRing(window_load_configured_buttons(settings), FALSE)

\* The launch animation, hovering and the close sequence.
NextWin ==
    \/ finalize_reposition /\ UNCHANGED asideVars
    \/ \E index \in 0..NumSlots : reveal_button(index) /\ UNCHANGED asideVars
    \/ \E i \in Slots : on_btn_enter(i) /\ UNCHANGED asideVars
    \/ \E i \in Slots, j \in 1..MaxSatellites : on_sub_enter(i, j) /\ UNCHANGED asideVars
    \/ close_clicked /\ UNCHANGED asideVars
    \/ on_button_press /\ UNCHANGED asideVars
    \/ \E should_quit_app \in BOOLEAN : animate_quit_call(should_quit_app)
          /\ UNCHANGED asideVars
    \/ \E t \in BagToSet(timers) : hide_button_timeout(t) /\ UNCHANGED asideVars
    \/ app_quit /\ UNCHANGED asideVars
    \/ destroy /\ UNCHANGED asideVars

SpecWin == InitWin /\ [][NextWin]_vars

\* The ring on screen with the editor opened from it (the Preferences button
\* calls show_preferences and requests no close): sub-buttons are added and
\* removed in the editor, and each write reaches the ring's refresh.
InitSubs ==
    /\ settings = dumps(PyList(TypicalButtons))
    /\ Quiet
    /\ NoScan
    /\ shake = NoShake
    /\ label_pos = <<>>
    /\ place = NoPlace
    /\ EditorOpen
    /\ win = "shown" /\ sync_window = FALSE /\ visible = TRUE /\ focused = TRUE
    /\ timers = EmptyBag
    /\ SetupRing(window_load_configured_buttons(settings), TRUE)

NextSubs ==
    \/ \E r \in Slots, sub_data \in PickerResults({}) \cup {SlotFile} :
          Operation(MaxSubEdits) /\ add_sub_button(r, sub_data) /\ UNCHANGED asideVars
    \/ \E r \in Slots, index \in 0..MaxSubs :
          Operation(MaxSubEdits) /\ remove_sub_button(r, index) /\ UNCHANGED asideVars
    \/ UNCHANGED ops /\ refresh_all_ring_buttons /\ UNCHANGED asideVars

SpecSubs == InitSubs /\ [][NextSubs]_vars

\* The launch with no close requested: the presentation, the reveal and
\* hovering.
NextLaunch ==
    \/ finalize_reposition /\ UNCHANGED asideVars
    \/ \E index \in 0..NumSlots : reveal_button(index) /\ UNCHANGED asideVars
    \/ \E i \in Slots : on_btn_enter(i) /\ UNCHANGED asideVars
    \/ \E i \in Slots, j \in 1..MaxSatellites : on_sub_enter(i, j) /\ UNCHANGED asideVars

\* The GLib main loop runs the _finalize_reposition and reveal_button
\* timeouts once they are due.
FairLaunch ==
    /\ WF_vars(finalize_reposition /\ UNCHANGED asideVars)
    /\ WF_vars(\E index \in 0..NumSlots : reveal_button(index) /\ UNCHANGED asideVars)

SpecLaunch == InitWin /\ [][NextLaunch]_vars /\ FairLaunch

\* The same, with the application activated again while its window exists.
NextActivate ==
    \/ do_activate /\ UNCHANGED asideVars
    \/ NextWin

SpecActivate == InitWin /\ [][NextActivate]_vars

\* The ring on screen after the launch animation, nothing hovered.
InitDispatch ==
    /\ settings = dumps(PyList(TypicalButtons))
    /\ Quiet
    /\ NoScan
    /\ shake = NoShake
    /\ label_pos = <<>>
    /\ place = NoPlace
    /\ EditorClosed
    /\ win = "shown" /\ sync_window = FALSE /\ visible = TRUE /\ focused = TRUE
    /\ timers = EmptyBag
    /\ SetupRing(window_load_configured_buttons(settings), TRUE)

AllOutcomes == {"none", "ok", "failed"}

\* Dispatch from the ring, every close trigger, and the close sequence.
NextDispatch ==
    \/ \E i \in Slots, outcome \in AllOutcomes : on_button_clicked(i, outcome)
          /\ UNCHANGED asideVars
    \/ \E i \in Slots, j \in 1..MaxSatellites, outcome \in AllOutcomes :
          on_sub_button_clicked(i, j, outcome) /\ UNCHANGED asideVars
    \/ \E t \in BagToSet(timers), outcome \in Outcomes : delayed_screenshot(t, outcome)
          /\ UNCHANGED asideVars
    \/ on_screenshot_response /\ UNCHANGED asideVars
    \/ \E action_type \in ExecuteTypes, outcome, fallback \in AllOutcomes :
          execute(action_type, outcome, fallback) /\ UNCHANGED asideVars
    \/ close_clicked /\ UNCHANGED asideVars
    \/ on_button_press /\ UNCHANGED asideVars
    \/ \E should_quit_app \in BOOLEAN : animate_quit_call(should_quit_app)
          /\ UNCHANGED asideVars
    \/ on_focus_out /\ UNCHANGED asideVars
    \/ focus_in /\ UNCHANGED asideVars
    \/ check_focus /\ UNCHANGED asideVars
    \/ \E t \in BagToSet(timers) : hide_button_timeout(t) /\ UNCHANGED asideVars
    \/ app_quit /\ UNCHANGED asideVars
    \/ destroy /\ UNCHANGED asideVars
    \/ on_preferences_closed /\ UNCHANGED asideVars

SpecDispatch == InitDispatch /\ [][NextDispatch]_vars

\* Dispatch from a ring whose stored list has a slot of type "file" (a type
\* the handlers of ActionHandler.execute know; the editor stores it for
\* sub-buttons only, so in a primary slot it comes from the settings key).
ButtonsWithFile ==
    <<SlotMedia, SlotFiles, SlotScreenshot, SlotPreferences,
      SlotApp, SlotCommand, SlotPrefix, SlotFile>>

InitAgree ==
    /\ settings = dumps(PyList(ButtonsWithFile))
    /\ Quiet
    /\ NoScan
    /\ shake = NoShake
    /\ label_pos = <<>>
    /\ place = NoPlace
    /\ EditorClosed
    /\ win = "shown" /\ sync_window = FALSE /\ visible = TRUE /\ focused = TRUE
    /\ timers = EmptyBag
    /\ SetupRing(window_load_configured_buttons(settings), TRUE)

SpecAgree == InitAgree /\ [][NextDispatch]_vars

\* The ring on screen while the stored list changes under it: every write
\* of buttons-json reaches _on_settings_buttons_changed, whose idle callback
\* may run at any point of the hover and close handlers.
NextRefresh ==
    \/ \E index \in Indices : Operation(MaxOps) /\ ResetSlot(index)
          /\ UNCHANGED asideVars
    \/ UNCHANGED ops /\ refresh_all_ring_buttons /\ UNCHANGED asideVars
    \/ \E i \in Slots : on_btn_enter(i) /\ UNCHANGED asideVars
    \/ close_clicked /\ UNCHANGED asideVars
    \/ \E t \in BagToSet(timers) : hide_button_timeout(t) /\ UNCHANGED asideVars
    \/ app_quit /\ UNCHANGED asideVars

SpecRefresh == InitRingStore /\ [][NextRefresh]_vars

\* The ring on screen under everything that can happen while it closes:
\* hovering (over the first and the last button), clicks, a write of
\* buttons-json (a reset of the first or the last slot) and its refresh, and
\* a second activation with its launch animation.  Every caller of
\* animate_quit passes should_quit_app = True, so the teardown is app.quit.
NextClose ==
    \/ \E i \in {1, NumSlots} : on_btn_enter(i) /\ UNCHANGED asideVars
    \/ close_clicked /\ UNCHANGED asideVars
    \/ on_button_press /\ UNCHANGED asideVars
    \/ \E index \in {0, NumSlots - 1} : Operation(MaxOps) /\ ResetSlot(index)
          /\ UNCHANGED asideVars
    \/ UNCHANGED ops /\ refresh_all_ring_buttons /\ UNCHANGED asideVars
    \/ do_activate /\ UNCHANGED asideVars
    \/ finalize_reposition /\ UNCHANGED asideVars
    \/ \E index \in 0..NumSlots : reveal_button(index) /\ UNCHANGED asideVars
    \/ \E t \in BagToSet(timers) : hide_button_timeout(t) /\ UNCHANGED asideVars
    \/ app_quit /\ UNCHANGED asideVars

\* The GLib main loop runs every timeout that is due: a pending hide_button
\* or app.quit callback is not postponed forever.
FairClose ==
    /\ WF_vars(\E t \in BagToSet(timers) : hide_button_timeout(t) /\ UNCHANGED asideVars)
    /\ WF_vars(app_quit /\ UNCHANGED asideVars)

SpecClose == InitDispatch /\ [][NextClose]_vars /\ FairClose

(***************************************************************************)
(* Discovery under a changing installation                                 *)
(***************************************************************************)
\* The number of registrations, installed files and revoked locations.
MaxEntries == 3

otherVars == <<storeVars, editorVars, lifeVars, ringVars, histVars, timers, label_pos,
               place, shake>>

\* The registry reports one more application.
register(app) ==
    /\ actions = <<>>
    /\ apps' = Append(apps, app)
    /\ UNCHANGED <<dirs, actions, otherVars>>

\* A file appears in a search location (which then exists); file names are
\* unique within a directory.
install(p, file_name) ==
    /\ actions = <<>>
    /\ \A k \in 1..Len(dirs[p].files) : dirs[p].files[k] # file_name
    /\ dirs' = [dirs EXCEPT ![p].exists = TRUE, ![p].files = Append(@, file_name)]
    /\ UNCHANGED <<apps, actions, otherVars>>

\* A search location exists but os.listdir raises on it.
revoke(p) ==
    /\ actions = <<>>
    /\ dirs[p].listable
    /\ dirs' = [dirs EXCEPT ![p].exists = TRUE, ![p].listable = FALSE]
    /\ UNCHANGED <<apps, actions, otherVars>>

\* ActionPicker.__init__: self.all_actions = AppScanner.get_all_actions()
load_actions ==
    /\ actions = <<>>
    /\ actions' = get_all_actions(apps, dirs)
    /\ UNCHANGED <<ops, apps, dirs, otherVars>>

\* The editor open over the typical configuration, the picker about to load.
InitScan ==
    /\ settings = dumps(PyList(TypicalButtons))
    /\ Quiet
    /\ NoScan
    /\ shake = NoShake
    /\ label_pos = <<>>
    /\ place = NoPlace
    /\ EditorOpen
    /\ win = "none" /\ sync_window = FALSE /\ visible = FALSE /\ focused = FALSE
    /\ timers = EmptyBag
    /\ NoRing

NextScan ==
    \/ \E app \in RegistryApps : Operation(MaxEntries) /\ register(app)
    \/ \E p \in 1..Len(scan_paths), file_name \in FileNames :
          Operation(MaxEntries) /\ install(p, file_name)
    \/ \E p \in 1..Len(scan_paths) : Operation(MaxEntries) /\ revoke(p)
    \/ load_actions

SpecScan == InitScan /\ [][NextScan]_vars

(***************************************************************************)
(* Label placement under a changing font                                   *)
(***************************************************************************)
\* The labels of all slots measured under one font and moved.
MoveLabels(char_width, line_height) ==
    label_pos' = [k \in Slots |-> MoveLabel(k - 1, char_width, line_height)]

\* quickeyWindow._on_map_event: the handler disconnects itself, then
\* reposition_all_labels measures and moves every label.
on_map_event(char_width, line_height) ==
    /\ app_running /\ win = "shown"
    /\ ops = 0 /\ ops' = 1
    /\ MoveLabels(char_width, line_height)
    /\ UNCHANGED <<storeVars, editorVars, lifeVars, ringVars, histVars, timers, scanVars, shake,
                   place>>

\* refresh_all_ring_buttons, with what refresh_button_ui does to the labels.
refresh_labels(char_width, line_height) ==
    /\ refresh_all_ring_buttons
    /\ MoveLabels(char_width, line_height)
    /\ UNCHANGED <<ops, scanVars, shake, place>>

\* The ring on screen, set up before the style sheet resolved (every
\* character one pixel wide), a settings-change refresh queued.
InitLabel ==
    /\ settings = dumps(PyList(TypicalButtons))
    /\ Quiet
    /\ NoScan
    /\ shake = NoShake
    /\ EditorClosed
    /\ win = "shown" /\ sync_window = FALSE /\ visible = TRUE /\ focused = TRUE
    /\ timers = SetToBag({Idle("refresh_all_ring_buttons")})
    /\ SetupRing(window_load_configured_buttons(settings), TRUE)
    /\ place = NoPlace
    /\ label_pos = [k \in Slots |->
                      LET size == Measured(action_data[k], 1, 1)
                          pos == get_label_pos(size.nw, size.nh, refresh_angle(k - 1), 100,
                                               IF Len(sd[k]) > 0 THEN 66 ELSE 15, 24)
                      IN [nw |-> size.nw, nh |-> size.nh, x |-> pos.x, y |-> pos.y]]

NextLabel ==
    \/ \E char_width \in 1..MaxCharWidth, line_height \in 1..MaxLineHeight :
          on_map_event(char_width, line_height)
    \/ \E char_width \in 1..MaxCharWidth, line_height \in 1..MaxLineHeight :
          refresh_labels(char_width, line_height)

SpecLabel == InitLabel /\ [][NextLabel]_vars

(***************************************************************************)
(* Presentation: the pointer-sync helper and where the window is put       *)
(***************************************************************************)
\* The desktop: two monitors side by side (Gdk.Monitor.get_geometry).
Monitors ==
    <<[x |-> 0, y |-> 0, width |-> 1920, height |-> 1080],
      [x |-> 1920, y |-> 0, width |-> 1280, height |-> 1024]>>

\* Where the pointer can be: corners and the middle of the first monitor,
\* a point near the top edge of the second.
Points == {<<0, 0>>, <<960, 540>>, <<1919, 1079>>, <<2000, 100>>}

Min(a, b) == IF a < b THEN a ELSE b
Max(a, b) == IF a > b THEN a ELSE b

\* display.get_monitor_at_point(x, y)
get_monitor_at_point(x, y) ==
    LET inside == {m \in 1..Len(Monitors) :
                      /\ Monitors[m].x <= x /\ x < Monitors[m].x + Monitors[m].width
                      /\ Monitors[m].y <= y /\ y < Monitors[m].y + Monitors[m].height}
    IN Monitors[CHOOSE m \in inside : TRUE]

\* A faulty placement that centres the window and does not clamp.
move_target_unclamped(x, y, geometry) == <<x - 300, y - 300>>

\* reposition_to_cursor: the position handed to self.move for the pointer at
\* (x, y) on the monitor with this geometry.
move_target(x, y, geometry) ==
    LET width == 600
        height == 600
        target_x == x - (width \div 2)
        target_y == y - (height \div 2)
    IN <<Max(geometry.x, Min(target_x, geometry.x + geometry.width - width)),
         Max(geometry.y, Min(target_y, geometry.y + geometry.height - height))>>

\* quickeyWindow.reposition_to_cursor(forced_x, forced_y): the position
\* handed to self.move.
reposition_to_cursor(x, y) == move_target(x, y, get_monitor_at_point(x, y))

\* One entry of a log: what was done, for which presentation, and where
\* (the pointer for "timeout", the window position for "move").
Event(ev, id, at) == [ev |-> ev, id |-> id, at |-> at]

\* The log holds one sequence of entries per presentation, in the order of
\* the reposition_and_present calls.
Has(entries, ev) == \E n \in 1..Len(entries) : entries[n].ev = ev

\* The presentations whose log has an entry ev.
Count(log, ev) == Cardinality({id \in 1..Len(log) : Has(log[id], ev)})

Logged(log, id, entries) == [log EXCEPT ![id] = @ \o entries]

\* A faulty _finalize_reposition that places and shows the window while the
\* helper is still up.
FinalizeEffects_helper_last(id, at) ==
    <<Event("move", id, reposition_to_cursor(at[1], at[2])),
      Event("show_all", id, <<>>),
      Event("present", id, <<>>),
      Event("sync_destroy", id, <<>>)>>

\* _finalize_reposition, lines 746-753, with target_x, target_y = at.
FinalizeEffects(id, at) ==
    <<Event("sync_destroy", id, <<>>),
      Event("move", id, reposition_to_cursor(at[1], at[2])),
      Event("show_all", id, <<>>),
      Event("present", id, <<>>)>>

\* The user moves the pointer.  Only _finalize_reposition reads where it is,
\* so the moves are followed while one is still to run.
pointer_moves(p) ==
    /\ Pending(Idle("_finalize_reposition"))
    /\ p # place.pointer
    /\ place' = [place EXCEPT !.pointer = p]
    /\ UNCHANGED <<storeVars, ops, editorVars, lifeVars, ringVars, histVars, timers,
                   scanVars, shake, label_pos>>

\* do_activate on the existing window: reposition_and_present shows one more
\* helper.
activate_placed ==
    /\ do_activate
    /\ place' = [place EXCEPT
                    !.log = Append(@, <<Event("sync_show", Len(@) + 1, <<>>)>>)]
    /\ UNCHANGED <<scanVars, shake, label_pos>>

\* _finalize_reposition(sync_window) of the oldest helper: the pointer is
\* queried now, the helper destroyed, the window moved and shown, and the two
\* reposition_to_cursor timeouts (40 ms, 200 ms) keep the queried position.
\* The first show_all maps the window, which queues the one-shot map-event.
finalize_placed ==
    LET id == Count(place.log, "sync_destroy") + 1
        at == place.pointer
        first == Count(place.log, "show_all") = 0
    IN
    /\ finalize_reposition
    /\ place' = [place EXCEPT
                    !.target = at,
                    !.log = Logged(@, id, <<Event("timeout", id, at)>>
                                                  \o FinalizeEffects(id, at)),
                    !.pending = @ \cup {[cb |-> "reposition_to_cursor", id |-> id,
                                          delay |-> d, at |-> at] : d \in {40, 200}}
                                  \cup (IF first
                                        THEN {[cb |-> "_on_map_event", id |-> id,
                                               delay |-> 0, at |-> <<>>]}
                                        ELSE {})]
    /\ UNCHANGED <<scanVars, shake, label_pos>>

\* A pending reposition_to_cursor(target_x, target_y) timeout fires: after
\* the map-event (which follows show_all at once), and the 40 ms one of a
\* presentation before its 200 ms one.
reposition_timeout(t) ==
    /\ app_running
    /\ t \in place.pending
    /\ t.cb = "reposition_to_cursor"
    /\ t.delay = 200 => [t EXCEPT !.delay = 40] \notin place.pending
    /\ \A u \in place.pending : u.cb # "_on_map_event"
    /\ place' = [place EXCEPT
                    !.pending = @ \ {t},
                    !.log = Logged(@, t.id,
                                   <<Event("move", t.id,
                                           reposition_to_cursor(t.at[1], t.at[2]))>>)]
    /\ UNCHANGED <<storeVars, ops, editorVars, lifeVars, ringVars, histVars, timers,
                   scanVars, shake, label_pos>>

\* _on_map_event, as far as the window's position goes: reposition_to_cursor
\* with target_x, target_y as they are by then.
map_event_placed(t) ==
    /\ app_running
    /\ t \in place.pending
    /\ t.cb = "_on_map_event"
    /\ place' = [place EXCEPT
                    !.pending = @ \ {t},
                    !.log = Logged(@, Count(@, "sync_destroy"),
                                   <<Event("move", Count(@, "sync_destroy"),
                                           reposition_to_cursor(place.target[1],
                                                                place.target[2]))>>)]
    /\ UNCHANGED <<storeVars, ops, editorVars, lifeVars, ringVars, histVars, timers,
                   scanVars, shake, label_pos>>

\* Application.do_activate has constructed the window and called
\* reposition_and_present: the first helper is up.
InitPresent ==
    /\ settings = dumps(PyList(TypicalButtons))
    /\ Quiet
    /\ NoScan
    /\ shake = NoShake
    /\ label_pos = <<>>
    /\ EditorClosed
    /\ win = "syncing" /\ sync_window = TRUE /\ visible = FALSE /\ focused = FALSE
    /\ timers = SetToBag({Idle("_finalize_reposition")})
    /\ SetupRing(window_load_configured_buttons(settings), FALSE)
    /\ \E p \in Points :
          place = [NoPlace EXCEPT !.pointer = p,
                                  !.log = <<<<Event("sync_show", 1, <<>>)>>>>]

NextPresent ==
    \/ \E p \in Points : pointer_moves(p)
    \/ activate_placed
    \/ finalize_placed
    \/ \E t \in place.pending : reposition_timeout(t)
    \/ \E t \in place.pending : map_event_placed(t)

SpecPresent == InitPresent /\ [][NextPresent]_vars

\* Monitor geometries the window may be placed on: the two of the desktop
\* above, one exactly as high as the window, and one smaller than the window.
Geometries ==
    {Monitors[1], Monitors[2],
     [x |-> 0, y |-> 0, width |-> 800, height |-> 600],
     [x |-> 1920, y |-> 56, width |-> 500, height |-> 400]}

\* Coordinates along one axis of a monitor: its edges, its middle, and the
\* places where centring the window starts and stops fitting.
AxisPoints(origin, size) ==
    {origin, origin + 299, origin + 300, origin + (size \div 2),
     origin + size - 300, origin + size - 299, origin + size - 1}

PointsOn(geometry) ==
    AxisPoints(geometry.x, geometry.width) \X AxisPoints(geometry.y, geometry.height)

\* The pointer somewhere on a monitor, the window not yet placed.
InitPlace ==
    /\ settings = dumps(PyList(TypicalButtons))
    /\ Quiet
    /\ NoScan
    /\ shake = NoShake
    /\ label_pos = <<>>
    /\ EditorClosed
    /\ win = "shown" /\ sync_window = FALSE /\ visible = TRUE /\ focused = TRUE
    /\ timers = EmptyBag
    /\ SetupRing(window_load_configured_buttons(settings), TRUE)
    /\ \E geometry \in Geometries : \E p \in PointsOn(geometry) :
          place = [pointer |-> p, over |-> <<>>, target |-> <<0, 0>>, pending |-> {},
                   log |-> <<>>, monitor |-> geometry]

placeFrame ==
    UNCHANGED <<storeVars, ops, editorVars, lifeVars, ringVars, histVars, timers,
                scanVars, shake, label_pos>>

\* The pointer moves on its monitor.
pointer_on_monitor(p) ==
    /\ p \in PointsOn(place.monitor)
    /\ place' = [place EXCEPT !.pointer = p]
    /\ placeFrame

\* reposition_to_cursor() with no forced position: the pointer is queried and
\* the window moved.
reposition_now ==
    /\ app_running
    /\ place' = [place EXCEPT !.target = move_target(place.pointer[1], place.pointer[2],
                                                     place.monitor)]
    /\ placeFrame

NextPlace ==
    \/ \E p \in PointsOn(place.monitor) : pointer_on_monitor(p)
    \/ reposition_now

SpecPlace == InitPlace /\ [][NextPlace]_vars

(***************************************************************************)
(* The shake listener: reversals of the pointer's direction within a        *)
(* time window                                                              *)
(***************************************************************************)
\* Sensitivity values handed to update_sensitivity, in tenths (the setting
\* is documented for 3-10 and converted by int(float(sensitivity))).
Sensitivities == {30, 35, 50, 75, 100}

\* TIME_WINDOW = 1.0 s and VELOCITY_THRESHOLD = 5, in ms and pixels.
TIME_WINDOW == 1000
VELOCITY_THRESHOLD == 5

\* Time passed between two motion events, in ms.
Gaps == {250, 1000}

\* Pointer deltas of one motion event along an axis.
Deltas == {-10, 0, 3, 10}

\* int(float(sensitivity)) for a sensitivity in tenths: the fraction dropped.
IntOfFloat(tenths) == tenths \div 10

\* A faulty mapping that is capped at four reversals.
NeededReversals_capped(sensitivity) == Max(4, 13 - IntOfFloat(sensitivity))

\* update_sensitivity: needed_reversals = max(3, 13 - int(float(sensitivity)))
NeededReversals(sensitivity) == Max(3, 13 - IntOfFloat(sensitivity))

\* 1 if d > 0 else (-1 if d < 0 else 0)
Dir(d) == IF d > 0 THEN 1 ELSE IF d < 0 THEN -1 ELSE 0

shakeFrame ==
    UNCHANGED <<storeVars, ops, editorVars, lifeVars, ringVars, histVars, timers,
                scanVars, label_pos, place>>

\* ShakeListener.update_sensitivity(sensitivity)
update_sensitivity(sensitivity) ==
    /\ shake.running
    /\ shake' = [shake EXCEPT !.sensitivity = sensitivity,
                              !.needed_reversals = NeededReversals(sensitivity),
                              !.detected = FALSE]
    /\ shakeFrame

\* ShakeListener.process_motion(dx, dy), gap ms after the previous motion
\* event.  reversals holds the age of each reversal kept, in ms.
process_motion(dx, dy, gap) ==
    LET kept == {age + gap : age \in shake.reversals} \cap 0..(TIME_WINDOW - 1)
        current_x_dir == Dir(dx)
        current_y_dir == Dir(dy)
        reversed_x == /\ shake.last_x_dir # 0 /\ current_x_dir # 0
                      /\ shake.last_x_dir # current_x_dir
        reversed_y == /\ shake.last_y_dir # 0 /\ current_y_dir # 0
                      /\ shake.last_y_dir # current_y_dir
        reversals == IF reversed_x \/ reversed_y THEN kept \cup {0} ELSE kept
    IN
    /\ shake.running
    /\ shake' =
          IF dx * dx + dy * dy < VELOCITY_THRESHOLD * VELOCITY_THRESHOLD
          THEN [shake EXCEPT !.reversals = kept, !.detected = FALSE]
          ELSE IF (reversed_x \/ reversed_y)
                  /\ Cardinality(reversals) >= shake.needed_reversals
          THEN [shake EXCEPT !.reversals = {}, !.detected = TRUE]
          ELSE [shake EXCEPT
                   !.reversals = reversals,
                   !.detected = FALSE,
                   !.last_x_dir = IF current_x_dir # 0 THEN current_x_dir ELSE @,
                   !.last_y_dir = IF current_y_dir # 0 THEN current_y_dir ELSE @]
    /\ shakeFrame

\* ShakeListener.__init__(app, reveal_callback, sensitivity): init_variables,
\* then update_sensitivity(sensitivity).
InitShake ==
    /\ settings = dumps(PyList(TypicalButtons))
    /\ Quiet
    /\ NoScan
    /\ label_pos = <<>>
    /\ place = NoPlace
    /\ EditorClosed
    /\ win = "none" /\ sync_window = FALSE /\ visible = FALSE /\ focused = FALSE
    /\ timers = EmptyBag
    /\ NoRing
    /\ \E sensitivity \in Sensitivities :
          shake = [NoShake EXCEPT !.running = TRUE,
                                  !.sensitivity = sensitivity,
                                  !.needed_reversals = NeededReversals(sensitivity)]

NextShake ==
    \/ \E sensitivity \in Sensitivities : update_sensitivity(sensitivity)
    \/ \E dx, dy \in Deltas, gap \in Gaps : process_motion(dx, dy, gap)

SpecShake == InitShake /\ [][NextShake]_vars

(***************************************************************************)
(* Hovering: enter and leave of ring buttons and satellites, and the        *)
(* debounce timeouts the leaves start                                      *)
(***************************************************************************)
\* The widget the pointer is over: none, ring button i, or satellite j of i.
OverNone == <<>>
OverButton(i) == <<i>>
OverSatellite(i, j) == <<i, j>>

\* main_btn.get_state_flags() & Gtk.StateFlags.PRELIGHT
main_hovered(i) == place.over = OverButton(i)

\* any(sb.get_state_flags() & Gtk.StateFlags.PRELIGHT for sb in label_data['sd'])
any_sub_hovered(i) == \E j \in 1..Len(sd[i]) : place.over = OverSatellite(i, j)

\* A faulty is_hovered that looks at the main button only.
is_hovered_main_only(i) == main_hovered(i)

\* _maybe_hide_refined_v5: is_hovered
is_hovered(i) == main_hovered(i) \/ any_sub_hovered(i)

MaybeHide(i) == Timer("_maybe_hide_refined_v5", <<i>>, "", FALSE)
CheckRestore(i) == Timer("_check_restore_label", <<i>>, "", FALSE)

HoverTimers == {t \in BagToSet(timers) : t.cb \in {"_maybe_hide_refined_v5",
                                                     "_check_restore_label"}}

\* Room for one more hover timeout.
HoverRoom ==
    LET Sum[S \in SUBSET HoverTimers] ==
            IF S = {} THEN 0
            ELSE LET t == CHOOSE u \in S : TRUE IN CopiesIn(t, timers) + Sum[S \ {t}]
    IN Sum[HoverTimers] < MaxHoverTimers

hoverFrame ==
    UNCHANGED <<storeVars, ops, editorVars, lifeVars, action_data, angle, sd, btn_hidden,
                close_hidden, histVars, scanVars, shake, label_pos>>

\* The pointer comes onto ring button i: on_btn_enter.
btn_enter(i) ==
    /\ place.over = OverNone
    /\ on_btn_enter(i)
    /\ place' = [place EXCEPT !.over = OverButton(i)]
    /\ UNCHANGED <<scanVars, shake, label_pos>>

\* The pointer goes off ring button i: on_btn_leave starts the 400 ms timeout.
btn_leave(i) ==
    /\ Interactive
    /\ place.over = OverButton(i)
    /\ HoverRoom
    /\ place' = [place EXCEPT !.over = OverNone]
    /\ timers' = Schedule(timers, MaybeHide(i))
    /\ UNCHANGED <<lb_visible, sd_hidden, sl_visible>>
    /\ hoverFrame

\* The pointer comes onto satellite j of ring button i (shown or not: the
\* class "hidden" leaves the widget in place): on_sub_enter.
sub_enter(i, j) ==
    /\ Interactive
    /\ place.over = OverNone
    /\ j \in 1..Len(sd[i])
    /\ place' = [place EXCEPT !.over = OverSatellite(i, j)]
    /\ lb_visible' = [lb_visible EXCEPT ![i] = FALSE]
    /\ sl_visible' = [sl_visible EXCEPT ![i] = @ \cup {j}]
    /\ UNCHANGED <<sd_hidden, timers>>
    /\ hoverFrame

\* The pointer goes off satellite j of ring button i: on_sub_leave hides the
\* satellite's label and starts the 50 ms timeout.
sub_leave(i, j) ==
    /\ Interactive
    /\ place.over = OverSatellite(i, j)
    /\ HoverRoom
    /\ place' = [place EXCEPT !.over = OverNone]
    /\ sl_visible' = [sl_visible EXCEPT ![i] = @ \ {j}]
    /\ timers' = Schedule(timers, CheckRestore(i))
    /\ UNCHANGED <<lb_visible, sd_hidden>>
    /\ hoverFrame

\* quickeyWindow._maybe_hide_refined_v5(lb, None, main_btn), 400 ms after a
\* leave of ring button i.
maybe_hide_refined_v5(i) ==
    /\ Pending(MaybeHide(i))
    /\ timers' = Fired(MaybeHide(i))
    /\ IF is_hovered(i)
       THEN UNCHANGED <<lb_visible, sd_hidden, sl_visible>>
       ELSE /\ lb_visible' = [lb_visible EXCEPT ![i] = FALSE]
            /\ sd_hidden' = [sd_hidden EXCEPT ![i] = TRUE]
            /\ sl_visible' = [sl_visible EXCEPT ![i] = {}]
    /\ UNCHANGED place
    /\ hoverFrame

\* A faulty restore condition that does not look at the main button.
restore_wanted_unhovered(i) == ~any_sub_hovered(i)

\* _check_restore_label: if not any_sub_hovered and main_hovered
restore_wanted(i) == ~any_sub_hovered(i) /\ main_hovered(i)

\* quickeyWindow._check_restore_label(main_lb, main_btn), 50 ms after a leave
\* of a satellite of ring button i.
check_restore_label(i) ==
    /\ Pending(CheckRestore(i))
    /\ timers' = Fired(CheckRestore(i))
    /\ lb_visible' = IF restore_wanted(i)
                     THEN [lb_visible EXCEPT ![i] = TRUE]
                     ELSE lb_visible
    /\ UNCHANGED <<sd_hidden, sl_visible, place>>
    /\ hoverFrame

NextHover ==
    \/ \E i \in Slots : btn_enter(i)
    \/ \E i \in Slots : btn_leave(i)
    \/ \E i \in Slots, j \in 1..MaxSatellites : sub_enter(i, j)
    \/ \E i \in Slots, j \in 1..MaxSatellites : sub_leave(i, j)
    \/ \E i \in Slots : maybe_hide_refined_v5(i)
    \/ \E i \in Slots : check_restore_label(i)

\* The ring on screen after the launch animation, the pointer on no widget.
SpecHover == InitDispatch /\ [][NextHover]_vars

(***************************************************************************)
(* Properties of the store                                                 *)
(***************************************************************************)
InRange(index) == 0 <= index /\ index < NumSlots

EightEmpty == [i \in Slots |-> EmptySlot]

IsEmptySlotEntry(e) ==
    /\ IsDict(e)
    /\ DictGet(e, "type") = PyStr("empty")
    /\ DictGet(e, "action") = PyStr("")

\* C1: whatever string is stored, load() (the store's and the window's)
\* returns exactly 8 entries and each entry has a non-null type.
C1_LoadEightTyped ==
    \A loaded \in {load_configured_buttons(settings),
                   window_load_configured_buttons(settings)} :
        /\ Len(loaded) = NumSlots
        /\ \A i \in Slots : IsDict(loaded[i]) /\ DictGet(loaded[i], "type") # PyNone

C7_SaveLoadIdempotent ==
    [][SaveLoaded =>
          LET loaded == load_configured_buttons(settings)
              saved == save_buttons(loaded)
              reloaded == load_configured_buttons(saved)
          IN /\ settings' = saved
             /\ Len(reloaded) = NumSlots
             /\ reloaded = loaded
             /\ load_configured_buttons(save_buttons(reloaded)) = reloaded]_vars

\* save_buttons(load_configured_buttons()) has just written the eight typical
\* buttons.
C7_Witness ==
    /\ last.handler = "save_buttons"
    /\ wrote
    /\ settings = dumps(PyList(TypicalButtons))

\* C8: reset_slot(i) with 0 <= i < 8, then load(), gives slot i the type
\* "empty" and the action ""; reset_slot with any other index writes nothing
\* and leaves the stored value unchanged.
C8_ResetSlot ==
    [][\A index \in Indices :
          ResetSlot(index) =>
              LET stored == reset_slot(settings, index) IN
              /\ settings' = stored
              /\ IF InRange(index)
                 THEN /\ wrote'
                      /\ IsEmptySlotEntry(load_configured_buttons(stored)[index + 1])
                 ELSE ~wrote' /\ stored = settings]_vars

\* reset_slot has just cleared the slot that held the Screenshot button.
C8_Witness ==
    /\ last.handler = "reset_slot"
    /\ last.index = 2
    /\ wrote
    /\ load_configured_buttons(settings) = [TypicalButtons EXCEPT ![3] = EmptySlot]

\* The stored value of a fresh configuration.
Fresh(json_str) == json_str \in {<<>>, dumps(PyList(<<>>))}

\* C9: from a fresh configuration load() gives 8 empty slots, and replacing
\* slot i by a picker result d (saved by the editor), then load(), gives d
\* unchanged at i and the empty slot everywhere else.
C9_PlaceDescriptor ==
    [][Fresh(settings) =>
          /\ load_configured_buttons(settings) = EightEmpty
          /\ \A index \in Indices, d \in PickerResults({}) :
                (on_replace_button(index, d) /\ wrote')
                => load_configured_buttons(settings')
                       = [EightEmpty EXCEPT ![index + 1] = d]]_vars

\* The editor has just put the GIMP descriptor into slot 3 of a fresh store.
C9_Witness ==
    /\ last.handler = "on_replace_button"
    /\ last.index = 3
    /\ wrote
    /\ load_configured_buttons(settings) = [EightEmpty EXCEPT ![4] = DescGimp]

\* An entry that stands for a hole: falsy, or of type "empty".
IsHole(e) == ~Truthy(e) \/ (IsDict(e) /\ DictGet(e, "type") = PyStr("empty"))

\* C10: after every operation that writes the key, the stored value is a JSON
\* array of exactly 8 objects, and every hole in it is the canonical empty
\* slot.
C10_StoredEightCanonical ==
    wrote =>
        LET r == loads(settings) IN
        /\ r.ok
        /\ IsList(r.v)
        /\ Len(r.v.c) = NumSlots
        /\ \A i \in 1..Len(r.v.c) :
              IsDict(r.v.c[i]) /\ (IsHole(r.v.c[i]) => r.v.c[i] = EmptySlot)

(***************************************************************************)
(* Properties of the close sequence and of dispatch                        *)
(***************************************************************************)
CloseOrder == <<0, 7, 6, 5, 4, 3, 2, 1>>

IsPrefix(p, q) == Len(p) <= Len(q) /\ SubSeq(q, 1, Len(p)) = p

\* The pending callbacks of the close sequence.
ClosePending(cbs) == {t \in BagToSet(timers) : t.cb \in cbs}

\* What a close request must not touch once a close sequence has started.
closeVars == <<is_quitting, first_quit_app, hide_order, teardowns, btn_hidden,
               sd_hidden, sl_visible, close_hidden>>

\* C3: whatever the triggers, only the first close request starts the hide
\* sequence; a later request changes nothing, and at most one teardown is
\* scheduled: the one the first request's should_quit_app chose, exactly one
\* once the close control is hidden.
C3_SingleCloseSequence ==
    /\ [](/\ is_quitting <=> requests > 0
          /\ is_quitting <=> first_quit_app # "none"
          /\ IsPrefix(hide_order, CloseOrder)
          /\ \A t \in ClosePending({"hide_button", "app.quit", "destroy"}) :
                /\ CopiesIn(t, timers) = 1
                /\ Teardown(t.q) = first_quit_app
          /\ Cardinality(ClosePending({"hide_button", "app.quit", "destroy"})) <= 1
          /\ Len(teardowns) <= 1
          /\ close_hidden <=> Len(teardowns) = 1
          /\ teardowns # <<>> => teardowns[1] = first_quit_app)
    /\ [][(is_quitting /\ requests' # requests) =>
             /\ UNCHANGED closeVars
             /\ ClosePending({"hide_button", "app.quit", "destroy"})'
                    = ClosePending({"hide_button", "app.quit", "destroy"})]_vars

\* A first request chose the window's destruction, a later request was
\* ignored, and the one teardown scheduled is that destruction.
C3_Witness ==
    /\ requests >= 2
    /\ first_quit_app = "destroy"
    /\ teardowns = <<"destroy">>

\* C4: the close sequence hides the ring buttons one per step in the order
\* 0,7,6,5,4,3,2,1; the step that hides a button also hides its satellites and
\* their labels; the close control is hidden only after the last index.
C4_CloseOrder ==
    /\ [](/\ IsPrefix(hide_order, CloseOrder)
          /\ close_hidden => hide_order = CloseOrder)
    /\ [][/\ hide_order' # hide_order =>
                /\ Len(hide_order') = Len(hide_order) + 1
                /\ LET idx == hide_order'[Len(hide_order')] IN
                      /\ btn_hidden'[idx + 1]
                      /\ sd_hidden'[idx + 1]
                      /\ sl_visible'[idx + 1] = {}
                /\ ~close_hidden'
          /\ close_hidden' # close_hidden => hide_order = CloseOrder]_vars

\* The close sequence has run to its end on a ring whose Screenshot button
\* was hovered (its satellites were showing) when the sequence started.
C4_Witness ==
    /\ hide_order = CloseOrder
    /\ close_hidden
    /\ lb_visible[3]
    /\ sd_hidden[3]

\* C5: when the spawn of a dispatched command or app fails, the error is
\* logged, nothing is raised, and the menu still gets a close request.
C5_FailedSpawnStillCloses ==
    (/\ last.handler \in {"on_button_clicked", "ActionHandler.execute"}
     /\ last.spawn = "failed")
    => last.error_logged /\ last.close_requested

\* C6: while a screenshot request issued to the portal is unanswered, no close
\* sequence starts and no teardown is scheduled; the response handler requests
\* close; handle_screenshot_portal requests close only when issuing failed.
C6_CloseWaitsForResponse ==
    /\ [][(portal = "pending" /\ portal' = "pending") =>
             is_quitting' = is_quitting /\ teardowns' = teardowns]_vars
    /\ [](/\ last.handler = "on_screenshot_response" => last.close_requested
          /\ last.handler = "handle_screenshot_portal" =>
                (last.close_requested <=> last.spawn = "failed"))

\* C16: when the stored string does not parse as JSON, or parses to something
\* that is not a list, load() (which is total: the parse error is caught)
\* returns the 8 canonical empty slots.
C16_MalformedLoadsEmpty ==
    LET r == loads(settings) IN
    (~r.ok \/ ~IsList(r.v)) =>
        /\ load_configured_buttons(settings) = EightEmpty
        /\ window_load_configured_buttons(settings) = EightEmpty

\* The editor was constructed over a truncated JSON text and holds the 8
\* empty slots load() returned; reset_slot(8) then loaded the same text and
\* wrote nothing.
C16_Witness ==
    /\ settings = <<LBrack, LBrace>>
    /\ last.handler = "reset_slot" /\ last.index = NumSlots /\ ~wrote
    /\ pref_open
    /\ buttons = EightEmpty
    /\ load_configured_buttons(settings) = buttons

(***************************************************************************)
(* Properties of the editor                                                *)
(***************************************************************************)
\* The list holds a slot whose action is "preferences".
HasPreferences(list) ==
    \E i \in 1..Len(list) : DictGet(list[i], "action") = PyStr("preferences")

\* C11: when the editor's list contains a slot with the action "preferences",
\* no editor operation (delete, replace through the picker, reorder,
\* sub-button add/remove) leaves the list without such a slot.
C11_PreferencesStays ==
    [][(pref_open /\ pref_open' /\ HasPreferences(buttons))
          => HasPreferences(buttons')]_vars

(***************************************************************************)
(* Properties of dispatch                                                  *)
(***************************************************************************)
\* The step made exactly one call of animate_quit, with should_quit_app TRUE,
\* on a ring that was not closing.
OneCloseRequest ==
    /\ last'.close_requested
    /\ requests' = requests + 1
    /\ is_quitting'
    /\ first_quit_app' = Teardown(TRUE)

\* C12: dispatching a slot of type command or app whose spawn succeeds logs
\* the attempt and makes exactly one close request with should_quit_app true;
\* type prefix makes the close request without any external call.
C12_SpawnOkCloses ==
    [][/\ \A i \in Slots :
             /\ (/\ DictGet(action_data[i], "type") \in {PyStr("command"), PyStr("app")}
                 /\ on_button_clicked(i, "ok"))
                => /\ last'.attempt_logged /\ ~last'.error_logged
                   /\ last'.spawn = "ok"
                   /\ OneCloseRequest
             /\ (/\ DictGet(action_data[i], "type") = PyStr("prefix")
                 /\ on_button_clicked(i, "none"))
                => /\ last'.spawn = "none"
                   /\ OneCloseRequest
       /\ \A action_type \in {"command", "app"} :
             execute(action_type, "ok", "none")
                => /\ last'.attempt_logged /\ ~last'.error_logged
                   /\ last'.spawn = "ok"
                   /\ OneCloseRequest
       /\ execute("prefix", "none", "none")
             => /\ last'.spawn = "none"
                /\ OneCloseRequest]_vars

\* The command slot (index 5) was clicked, its spawn succeeded, and the one
\* close request it made chose app.quit.
C12_Witness ==
    /\ last.handler = "on_button_clicked"
    /\ last.index = 5
    /\ last.spawn = "ok"
    /\ last.close_requested
    /\ requests = 1
    /\ first_quit_app = "app.quit"

\* The satellite action screenshot_<mode>, and screenshot_<mode>_5s.
Plain(mode) ==
    CASE mode = "area" -> "screenshot_area"
      [] mode = "window" -> "screenshot_window"
      [] mode = "full" -> "screenshot_full"

Delayed(mode) ==
    CASE mode = "area" -> "screenshot_area_5s"
      [] mode = "window" -> "screenshot_window_5s"
      [] mode = "full" -> "screenshot_full_5s"

\* The pending deferred capture calls.
Deferred == {t \in BagToSet(timers) : t.cb = "handle_screenshot_portal"}

\* C13: for the satellite actions screenshot_<mode> and screenshot_<mode>_5s
\* the derived base mode is <mode> and the derived delay is 5 with the suffix
\* and 0 without; a click with a delay hides the window and schedules exactly
\* one deferred capture with the base mode (and captures nothing yet); a click
\* without delay invokes the capture at once, once, with the base mode, and
\* schedules nothing.
C13_ScreenshotModeDelay ==
    /\ [](\A mode \in ScreenshotModes :
              /\ CleanMode(Plain(mode)) = mode /\ Delay(Plain(mode)) = 0
              /\ CleanMode(Delayed(mode)) = mode /\ Delay(Delayed(mode)) = 5)
    /\ [][\A i \in Slots, j \in 1..MaxSatellites, mode \in ScreenshotModes :
             /\ (/\ j <= Len(sd[i]) /\ sd[i][j] = Delayed(mode)
                 /\ on_sub_button_clicked(i, j, "none"))
                => /\ ~visible'
                   /\ timers' = timers (+) SetToBag({Timer("handle_screenshot_portal",
                                                           <<5>>, mode, FALSE)})
                   /\ CopiesIn(Timer("handle_screenshot_portal", <<5>>, mode, FALSE),
                               timers') = 1
                   /\ Deferred' = {Timer("handle_screenshot_portal", <<5>>, mode, FALSE)}
                   /\ portal' = portal
                   /\ last'.handler = "on_sub_button_clicked"
                   /\ ~last'.close_requested
             /\ \A outcome \in Outcomes :
                   (/\ j <= Len(sd[i]) /\ sd[i][j] = Plain(mode)
                    /\ on_sub_button_clicked(i, j, outcome))
                   => /\ last'.handler = "handle_screenshot_portal"
                      /\ last'.mode = mode
                      /\ last'.spawn = outcome
                      /\ outcome = "ok" => portal' = "pending" /\ ~visible'
                      /\ Deferred' = {} /\ Deferred = {}]_vars

\* The satellite "Area (5s)" was clicked: the window is hidden and the one
\* deferred capture of mode area is pending.
C13_Witness ==
    /\ last.handler = "on_sub_button_clicked"
    /\ last.mode = "area"
    /\ ~visible
    /\ Deferred = {Timer("handle_screenshot_portal", <<5>>, "area", FALSE)}
    /\ portal = "none"

\* C14: dispatching type file calls the file-open portal and then requests
\* close; the open-command fallback is attempted exactly when the portal call
\* failed, and when it succeeds close is requested (when it fails too, both
\* errors are logged and nothing is requested); no dispatch makes more than
\* one close request.
C14_FileOpenFallback ==
    [][\A outcome, fallback \in AllOutcomes :
          execute("file", outcome, fallback) =>
             /\ last'.handler = "ActionHandler._open_file"
             /\ last'.spawn = outcome /\ outcome \in Outcomes
             /\ last'.fallback = fallback
             /\ fallback # "none" <=> outcome = "failed"
             /\ outcome = "ok" => OneCloseRequest /\ ~last'.error_logged
             /\ (outcome = "failed" /\ fallback = "ok")
                   => OneCloseRequest /\ last'.error_logged
             /\ (outcome = "failed" /\ fallback = "failed")
                   => /\ ~last'.close_requested /\ last'.error_logged
                      /\ requests' = requests /\ ~is_quitting'
             /\ requests' <= requests + 1]_vars

\* The portal call failed, the fallback spawn succeeded, and the dispatch made
\* its one close request.
C14_Witness ==
    /\ last.handler = "ActionHandler._open_file"
    /\ last.spawn = "failed"
    /\ last.fallback = "ok"
    /\ last.close_requested
    /\ requests = 1
    /\ is_quitting

\* The slot opens the editor when clicked: type empty, or the Preferences
\* button.
OpensEditor(data) ==
    \/ DictGet(data, "type") = PyStr("empty")
    \/ DictGet(data, "type") = PyStr("internal")
          /\ DictGet(data, "action") = PyStr("preferences")

\* C15: a click on a slot of type empty, or of type internal with the action
\* preferences, opens the editor and makes no close request: is_quitting
\* stays false and no hide step or teardown is scheduled; nor does the focus
\* check that follows the editor taking the focus start one.
C15_EditorClickKeepsRing ==
    [][/\ \A i \in Slots :
             (OpensEditor(action_data[i]) /\ on_button_clicked(i, "none"))
             => /\ pref_open'
                /\ ~last'.close_requested
                /\ requests' = requests
                /\ ~is_quitting'
                /\ hide_order' = hide_order /\ teardowns' = teardowns
                /\ timers' = timers
                /\ visible'
       /\ (pref_open /\ check_focus)
             => /\ is_quitting' = is_quitting
                /\ requests' = requests
                /\ ClosePending({"hide_button", "app.quit", "destroy"})'
                      = ClosePending({"hide_button", "app.quit", "destroy"})]_vars

\* The empty slot (index 7) was clicked, the editor took the focus, the focus
\* check has run, and the ring is still up.
C15_Witness ==
    /\ last.handler = "on_button_clicked"
    /\ last.index = 7
    /\ pref_open
    /\ ~focused
    /\ CopiesIn(CheckFocus, timers) = 0
    /\ visible /\ ~is_quitting /\ requests = 0

(***************************************************************************)
(* Properties of discovery                                                 *)
(***************************************************************************)
\* The positions of the Applications-group entries of a discovered list.
Applications(list) ==
    {k \in 1..Len(list) : DictGet(list[k], "group") = PyStr("Applications")}

\* C17: discovery never emits two Applications-group entries with the same
\* normalized identifier (the identifier without a trailing ".desktop"),
\* whatever the registry returns and whatever the search locations contain.
C17_NoDuplicateIdentifiers ==
    \A j, k \in Applications(actions) :
        norm_id(DictGet(actions[j], "action").s) = norm_id(DictGet(actions[k], "action").s)
            => j = k

\* C18: the discovered list is the four built-in entries in their fixed
\* order (media, files, screenshot, preferences), then the application
\* entries in case-insensitive order of name, then the Custom Command entry,
\* which occurs once, as the last element.
C18_DiscoveryOrder ==
    actions # <<>> =>
        LET n == Len(actions)
            key(k) == Lower(Text(DictGet(actions[k], "name").s))
        IN /\ n >= 5
           /\ [k \in 1..4 |-> DictGet(actions[k], "action")]
                 = <<PyStr("media"), PyStr("files"), PyStr("screenshot"),
                     PyStr("preferences")>>
           /\ \A k \in 1..4 : DictGet(actions[k], "group") = PyStr("Built-in Action")
           /\ Applications(actions) = 5..(n - 1)
           /\ \A k \in 5..(n - 2) : ~StrLess(key(k + 1), key(k))
           /\ {k \in 1..n : DictGet(actions[k], "name") = PyStr("Custom Command")} = {n}
           /\ DictGet(actions[n], "group") = PyStr("Custom")

\* The registry reported "B" before "a", a search location added b.desktop
\* (which carries no name), and discovery returned them as a, B, b.desktop.
C18_Witness ==
    /\ Len(apps) = 2 /\ apps[1].name = "B" /\ apps[2].name = "a"
    /\ Len(actions) = 8
    /\ [k \in 5..7 |-> DictGet(actions[k], "name").s] = [k \in 5..7 |->
          CASE k = 5 -> "a" [] k = 6 -> "B" [] k = 7 -> "b.desktop"]
    /\ actions[8] = DescCustom

(***************************************************************************)
(* Properties of the picker                                                *)
(***************************************************************************)
\* The slots of a list that hold the built-in action name.
BuiltinAt(list, name) ==
    {k \in 1..Len(list) : /\ IsDict(list[k])
                          /\ DictGet(list[k], "type") = PyStr("internal")
                          /\ DictGet(list[k], "action") = name}

SingletonsOnce(list) ==
    \A name \in Singletons : Cardinality(BuiltinAt(list, name)) <= 1

C20_SlotAngles ==
    /\ setup_angle(0, NumSlots) = -90
    /\ setup_angle(2, NumSlots) = 0
    /\ \A i \in 0..(NumSlots - 2) :
          setup_angle(i + 1, NumSlots) - setup_angle(i, NumSlots) = 45
    /\ \A i \in 0..(NumSlots - 1) :
          /\ setup_angle(i, NumSlots) = 45 * i - 90
          /\ refresh_angle(i) = 45 * i - 90
          /\ reposition_angle(i) = 45 * i - 90
    /\ \A k \in 1..Len(angle) :
          /\ setup_angle(k - 1, Len(action_data)) = 45 * (k - 1) - 90
          /\ angle[k].btn = 45 * (k - 1) - 90
          /\ angle[k].lb = 45 * (k - 1) - 90
          /\ angle[k].sd \subseteq {45 * (k - 1) - 90}

\* A media command from a satellite has just refreshed the whole ring: the
\* Media button, its label and its satellites are at -90 degrees, the label
\* of slot 2 at 0 degrees.
C20_Witness ==
    /\ last.handler = "on_sub_button_clicked" /\ last.index = 0 /\ last.spawn = "ok"
    /\ Len(angle) = NumSlots
    /\ angle[1] = [btn |-> -90, lb |-> -90, sd |-> {-90}]
    /\ angle[3].lb = 0

\* The slots whose angle is one of the given ones (degrees in 0..359).
SlotsAt(degrees) == {k \in 1..Len(label_pos) : refresh_angle(k - 1) % 360 \in degrees}

\* How far coordinate c of a label of extent n lies from where it would be
\* centred on coordinate b of its button, in millionths of half a pixel.
OffCentre(c, n, b) == c * Unit - (b - n * (Unit \div 2))

\* C21 as stated: at 90 or 270 degrees label x = button x - width / 2, at 0
\* or 180 degrees label y = button y - height / 2, for every label size.
C21_LabelCentredExactly ==
    /\ \A k \in SlotsAt({90, 270}) :
          OffCentre(label_pos[k].x, label_pos[k].nw,
                    ButtonCentre(refresh_angle(k - 1), 100).x) = 0
    /\ \A k \in SlotsAt({0, 180}) :
          OffCentre(label_pos[k].y, label_pos[k].nh,
                    ButtonCentre(refresh_angle(k - 1), 100).y) = 0

\* The coordinate is the centred one when the extent is even; when it is odd,
\* it is the even one of the two pixels half a pixel either side.
CentredToPixel(c, n, b) ==
    IF n % 2 = 0 THEN OffCentre(c, n, b) = 0
    ELSE /\ OffCentre(c, n, b) \in {Unit \div 2, -(Unit \div 2)}
         /\ c % 2 = 0

\* C21, amended: at 90 or 270 degrees the label is centred on the button's x
\* (at 0 or 180 degrees on its y) to the pixel: exactly for an even width
\* (height), rounded half a pixel to the even pixel for an odd one.
C21_LabelCentred ==
    /\ \A k \in SlotsAt({90, 270}) :
          CentredToPixel(label_pos[k].x, label_pos[k].nw,
                         ButtonCentre(refresh_angle(k - 1), 100).x)
    /\ \A k \in SlotsAt({0, 180}) :
          CentredToPixel(label_pos[k].y, label_pos[k].nh,
                         ButtonCentre(refresh_angle(k - 1), 100).y)

\* The map event has moved the labels under a font 3 wide and 3 high: the
\* 15-wide label of slot 0 (270 degrees) is at x 292, the label of slot 2
\* (0 degrees) at y 298.
C21_Witness ==
    /\ ops = 1
    /\ label_pos[1].nw = 15 /\ label_pos[1].x = 292
    /\ label_pos[3].nh = 3 /\ label_pos[3].y = 298

(***************************************************************************)
(* Properties of the window's life                                         *)
(***************************************************************************)
\* animate_launch has just run: one more reveal_button(0) is pending.
StartsReveal ==
    LET first == Timer("reveal_button", <<0>>, "", FALSE) IN
    CopiesIn(first, timers') > CopiesIn(first, timers)

\* C22: for one window the staggered reveal is started at most once, that is
\* only by the presentation that first shows it; no reveal starts on a window
\* that is already shown, whether idle or running its close sequence.
C22_RevealStartsOnce ==
    [][StartsReveal => win = "syncing"]_vars


\* The idle callback of a settings change has just run.
Rerendered ==
    CopiesIn(Idle("refresh_all_ring_buttons"), timers')
        < CopiesIn(Idle("refresh_all_ring_buttons"), timers)

\* C23: a settings-change notification handled after the close sequence has
\* started re-reads nothing and leaves every slot's widget bundle (action
\* data, satellites, their classes and placement) as it was.
C23_RefreshDefusedWhenClosing ==
    [][(is_quitting /\ Rerendered)
          => UNCHANGED <<action_data, sd, sd_hidden, sl_visible, angle>>]_vars

\* The settle-delay check of a focus loss has just run.
CheckRan == CopiesIn(CheckFocus, timers') < CopiesIn(CheckFocus, timers)

\* C24: when check_focus runs, the close request is dropped if a close is
\* in progress, a preferences window of the application exists, or the
\* application's active window is not the ring; otherwise the check starts
\* the close sequence that ends in app.quit.
C24_FocusCheckDecision ==
    [][CheckRan =>
          IF is_quitting \/ pref_open \/ get_active_window # "quickeyWindow"
          THEN UNCHANGED <<is_quitting, requests, hide_order, teardowns, btn_hidden>>
          ELSE /\ is_quitting'
               /\ first_quit_app' = "app.quit"
               /\ hide_order' = <<0>>]_vars

\* The check ran and was dropped because the editor exists: the focus is
\* away, no check is pending, the ring is still open.
C24_Witness ==
    /\ app_running /\ win = "shown"
    /\ pref_open
    /\ ~focused
    /\ ~is_quitting
    /\ ~BagIn(CheckFocus, timers)


\* C25: in the log of every presentation the helper's destruction comes
\* before each move, show and present of the ring window, and every move
\* goes to the place computed from the pointer as it was when the sync delay
\* of that presentation fired.
C25_HelperDestroyedFirst ==
    \A id \in 1..Len(place.log) :
       LET log == place.log[id] IN
       \A n \in 1..Len(log) :
          /\ log[n].id = id
          /\ log[n].ev \in {"move", "show_all", "present"} =>
                \E m \in 1..(n - 1) : log[m].ev = "sync_destroy"
          /\ log[n].ev = "move" =>
                \E m \in 1..(n - 1) :
                   /\ log[m].ev = "timeout"
                   /\ log[n].at = reposition_to_cursor(log[m].at[1], log[m].at[2])

\* The window was shown at the place of a pointer that moved during the sync
\* delay, the application was activated again, and every timeout of both
\* presentations has run.
C25_Witness ==
    /\ win = "shown"
    /\ place.pending = {}
    /\ Len(place.log) = 2
    /\ Len(place.log[1]) >= 8
    /\ Len(place.log[2]) >= 8
    /\ place.log[1][2] = Event("timeout", 1, <<2000, 100>>)
    /\ place.log[2][2] = Event("timeout", 2, <<0, 0>>)
    /\ place.target = <<0, 0>>

\* The window is gone: destroyed, or the application has quit.
TornDown == win = "destroyed" \/ ~app_running

\* C26: an accepted close request always ends in teardown; by then the hide
\* sequence has taken one step per ring button and hidden the close control,
\* exactly one teardown was scheduled, and the sequence is never left or
\* started again.
C26_CloseEndsInTeardown ==
    /\ is_quitting ~> TornDown
    /\ [](TornDown /\ is_quitting =>
            /\ Len(hide_order) = NumSlots
            /\ {hide_order[n] : n \in 1..Len(hide_order)} = 0..(NumSlots - 1)
            /\ close_hidden
            /\ Len(teardowns) = 1)
    /\ [][is_quitting => /\ is_quitting'
                         /\ IsPrefix(hide_order, hide_order')
                         /\ IsPrefix(teardowns, teardowns')]_vars

\* The application quit at the end of a close sequence during which it was
\* activated again and the launch animation ran once more.
C26_Witness ==
    /\ ~app_running
    /\ is_quitting
    /\ ops = 1
    /\ teardowns = <<"app.quit">>
    /\ BagIn(Timer("reveal_button", <<1>>, "", FALSE), timers)


\* C27: when the close sequence reaches teardown every ring button, every
\* satellite, every satellite label and the close control is hidden.
C27_AllHiddenAtTeardown ==
    (is_quitting /\ TornDown) =>
        /\ \A i \in Slots : btn_hidden[i] /\ sd_hidden[i] /\ sl_visible[i] = {}
        /\ close_hidden


\* The timeouts of delayed screenshots that have not run yet.
DeferredCaptures == {t \in BagToSet(timers) : t.cb = "handle_screenshot_portal"}

\* C28: while a delayed screenshot is waiting for its timeout the application
\* keeps running and the ring window is not torn down, so that the capture
\* always gets to run.
C28_DeferredCaptureSurvives ==
    DeferredCaptures # {} => app_running /\ win = "shown"


C30_EnterShowsOnlyThis ==
    [][\A i \in Slots :
          (~lb_visible[i] /\ lb_visible'[i]) =>
             /\ ~sd_hidden'[i]
             /\ \A j \in Slots \ {i} : ~lb_visible'[j] /\ sd_hidden'[j]
             /\ \A j \in Slots : sl_visible'[j] = {}]_vars

\* The pointer is on a ring button that has satellites: its label and its
\* satellites show, nothing else does.
C30_Witness ==
    /\ Interactive
    /\ \E i \in Slots :
          /\ sd[i] # <<>>
          /\ lb_visible[i] /\ ~sd_hidden[i]
          /\ \A j \in Slots \ {i} : ~lb_visible[j] /\ sd_hidden[j]
          /\ \A j \in Slots : sl_visible[j] = {}


\* The pointer is on ring button i or on one of its satellites.
WithinGroup(i) ==
    /\ place.over # OverNone
    /\ place.over[1] = i
    /\ Len(place.over) = 2 => place.over[2] <= Len(sd[i])

\* The 400 ms timeout of a leave of ring button i has just run.
HideFired(i) == CopiesIn(MaybeHide(i), timers') < CopiesIn(MaybeHide(i), timers)

Shown(i) == <<lb_visible[i], sd_hidden[i], sl_visible[i]>>

\* C31: when the leave timeout of ring button i runs, the label and the
\* satellites of i are left as they are if the pointer is at that moment on
\* button i or on one of its satellites, and hidden otherwise; where the
\* pointer was when the timeout was started plays no part.
C31_HideDecidedAtFireTime ==
    [][\A i \in Slots :
          HideFired(i) =>
             IF WithinGroup(i)
             THEN UNCHANGED Shown(i)
             ELSE ~lb_visible'[i] /\ sd_hidden'[i] /\ sl_visible'[i] = {}]_vars

\* The pointer went from a ring button to one of its satellites and the
\* button's leave timeout has run since: the satellites still show.
C31_Witness ==
    \E i \in Slots :
       /\ Len(place.over) = 2 /\ place.over[1] = i
       /\ ~sd_hidden[i]
       /\ place.over[2] \in sl_visible[i]
       /\ ~BagIn(MaybeHide(i), timers)


\* The leave timeout of ring button i has just hidden something of i.
HidBy(i) == HideFired(i) /\ Shown(i)' # Shown(i)

\* C32: the label and satellites of ring button i are hidden only by the
\* timeout of the most recent leave of i: when a leave timeout hides them, no
\* timeout of a later leave of i is still waiting.
C32_HiddenByLatestLeaveOnly ==
    [][\A i \in Slots : HidBy(i) => ~BagIn(MaybeHide(i), timers')]_vars


\* The 50 ms timeout of a leave of a satellite of ring button i has just run.
RestoreFired(i) == CopiesIn(CheckRestore(i), timers') < CopiesIn(CheckRestore(i), timers)

RevealPending == {t \in BagToSet(timers) : t.cb = "reveal_button"}

AllRevealed == \A i \in Slots : ~btn_hidden[i]

\* C34: the ring buttons are all hidden until the window is presented; each
\* reveal step shows exactly the lowest-indexed button still hidden and
\* touches no position, label or satellite; and, no close being requested,
\* in the end every ring button shows and no reveal step is pending.
C34_RevealInOrder ==
    /\ [](win = "syncing" => \A i \in Slots : btn_hidden[i])
    /\ [][btn_hidden' # btn_hidden =>
             /\ \E k \in Slots :
                   /\ btn_hidden[k]
                   /\ \A i \in 1..(k - 1) : ~btn_hidden[i]
                   /\ btn_hidden' = [btn_hidden EXCEPT ![k] = FALSE]
             /\ UNCHANGED <<action_data, angle, sd, sd_hidden, lb_visible, sl_visible,
                            close_hidden, label_pos>>]_vars
    /\ <>[](AllRevealed /\ RevealPending = {})

\* The reveal has run to its end.
C34_Witness ==
    /\ win = "shown"
    /\ AllRevealed
    /\ RevealPending = {}
    /\ ~is_quitting


(***************************************************************************)
(* Properties of the media satellites                                      *)
(***************************************************************************)
\* The step is a media-transport click on a satellite.
MediaClick == last' # last /\ last'.cmd \in MprisCommands

\* C35: a satellite click on Previous, Next, Backward10, Forward10, PlayPause
\* or Stop sends that command to every media player on the session bus (Seek
\* by +/- 10 s for the two skips) when the bus answers, renders all eight
\* slots again from the stored list, and requests no close.
C35_MediaClickStaysOpen ==
    [][MediaClick =>
         LET loaded == window_load_configured_buttons(settings)
             cmd == last'.cmd
         IN /\ last'.handler = "on_sub_button_clicked"
            /\ last'.spawn = "ok" =>
                  /\ \A p \in last'.players : \E c \in last'.sent :
                        /\ c.player = p
                        /\ c.method = CASE cmd = "Forward10" -> "Seek"
                                         [] cmd = "Backward10" -> "Seek"
                                         [] OTHER -> cmd
                  /\ \A c \in last'.sent :
                        /\ c.player \in last'.players
                        /\ cmd = "Forward10" => c.arg = 10000000
                        /\ cmd = "Backward10" => c.arg = -10000000
            /\ \A k \in Slots :
                  /\ action_data'[k] = loaded[k]
                  /\ sd'[k] = rebuild_sub_buttons(loaded[k])
                  /\ sd_hidden'[k]
            /\ ~last'.close_requested
            /\ ~is_quitting /\ ~is_quitting'
            /\ UNCHANGED <<requests, timers, teardowns, visible, win>>]_vars

\* A skip forward has gone to both players and the ring is still open.
C35_Witness ==
    /\ last.handler = "on_sub_button_clicked"
    /\ last.cmd = "Forward10"
    /\ last.spawn = "ok"
    /\ last.players = Players
    /\ Cardinality(last.sent) = 2
    /\ ~is_quitting
    /\ requests = 0


(***************************************************************************)
(* Properties of the stored sub-buttons                                    *)
(***************************************************************************)
\* The ring shows what the last setup or re-render made of the stored list.
Rendered == win = "shown" /\ ~BagIn(Idle("refresh_all_ring_buttons"), timers)

\* C36: once the ring has been set up or rendered again, every entry of the
\* sub_buttons list stored for a slot has its satellite, in list order, around
\* that slot's button.
C36_StoredSubButtonsRendered ==
    Rendered =>
        LET stored == window_load_configured_buttons(settings)
        IN \A i \in Slots :
              LET subs == SubButtons(stored[i])
              IN /\ Len(subs) <= Len(sd[i])
                 /\ \A j \in 1..Len(subs) :
                       j <= Len(sd[i]) => PyStr(sd[i][j]) = DictGet(subs[j], "action")


(***************************************************************************)
(* Properties of the two dispatchers                                       *)
(***************************************************************************)
\* on_button_clicked on ring button i can end with this external call and
\* this close request.
ClickCan(i, spawn, close_requested) ==
    ENABLED (/\ on_button_clicked(i, spawn)
             /\ last'.spawn = spawn
             /\ last'.close_requested = close_requested)

\* ActionHandler.execute on this type can end with this external call and
\* this close request.
ExecuteCan(action_type, spawn, close_requested) ==
    ENABLED (\E fallback \in AllOutcomes :
                /\ execute(action_type, spawn, fallback)
                /\ last'.spawn = spawn
                /\ last'.close_requested = close_requested)

\* C37: for every slot type that reaches a dispatcher, a click handled by
\* on_button_clicked and the same (type, action) handled by
\* ActionHandler.execute attempt the same external call and request a close
\* in the same cases.
C37_DispatchersAgree ==
    Interactive =>
        \A i \in Slots, action_type \in ExecuteTypes :
           DictGet(action_data[i], "type") = PyStr(action_type) =>
              \A spawn \in AllOutcomes, close_requested \in BOOLEAN :
                 ClickCan(i, spawn, close_requested)
                    <=> ExecuteCan(action_type, spawn, close_requested)

\* The same, for the types that on_button_clicked has a branch for.
AgreeOnHandledTypes ==
    Interactive =>
        \A i \in Slots, action_type \in ExecuteTypes \ {"file"} :
           DictGet(action_data[i], "type") = PyStr(action_type) =>
              \A spawn \in AllOutcomes, close_requested \in BOOLEAN :
                 ClickCan(i, spawn, close_requested)
                    <=> ExecuteCan(action_type, spawn, close_requested)


(***************************************************************************)
(* Properties of the window position                                       *)
(***************************************************************************)
\* v brought into lo..hi; the monitor's origin when the window does not fit
\* (hi < lo).
Clamped(v, lo, hi) ==
    IF hi < lo THEN lo
    ELSE IF v < lo THEN lo
    ELSE IF v > hi THEN hi
    ELSE v

\* The step moves the window for the pointer where it is.
Reposition == place'.pointer = place.pointer /\ place'.target # place.target

\* C38: the window's top-left is the pointer minus 300 on each axis, brought
\* into [monitor origin, monitor origin + monitor size - 600]; on a monitor at
\* least 600 wide and high the 600 x 600 window lies within the monitor.
C38_WindowClamped ==
    [][Reposition =>
         LET g == place.monitor
             x == place.pointer[1]
             y == place.pointer[2]
             t == place'.target
         IN /\ t[1] = Clamped(x - 300, g.x, g.x + g.width - 600)
            /\ t[2] = Clamped(y - 300, g.y, g.y + g.height - 600)
            /\ (g.width >= 600 /\ g.height >= 600) =>
                  /\ g.x <= t[1] /\ t[1] + 600 <= g.x + g.width
                  /\ g.y <= t[2] /\ t[2] + 600 <= g.y + g.height]_vars

\* The window placed for a pointer near the bottom-right corner of the
\* second monitor: both axes are clamped to the far edge.
C38_Witness ==
    /\ place.monitor = Monitors[2]
    /\ place.pointer = <<3199, 1023>>
    /\ place.target = <<2600, 424>>


(***************************************************************************)
(* Properties of the editor's reorder                                      *)
(***************************************************************************)
\* The list without its item at 0-based position index.
Without(list, index) == SubSeq(list, 1, index) \o SubSeq(list, index + 2, Len(list))

\* C39: on_reorder(source, dest) with source # dest puts the item of position
\* source at position dest and keeps the other seven in their order, so the
\* new list is a permutation of the old one, and writes it; with
\* source = dest it changes nothing and writes nothing.
C39_ReorderMovesOne ==
    [][\A source_idx, dest_idx \in 0..(NumSlots - 1) :
          (/\ ops' # ops
           /\ last'.handler = "on_reorder" /\ last'.index = source_idx
           /\ on_reorder(source_idx, dest_idx)) =>
             IF source_idx # dest_idx
             THEN /\ Len(buttons') = NumSlots /\ Len(buttons) = NumSlots
                  /\ buttons'[dest_idx + 1] = buttons[source_idx + 1]
                  /\ Without(buttons', dest_idx) = Without(buttons, source_idx)
                  /\ \A a \in Slots :
                        Cardinality({k \in Slots : buttons'[k] = buttons[a]})
                           = Cardinality({k \in Slots : buttons[k] = buttons[a]})
                  /\ wrote'
             ELSE /\ UNCHANGED <<buttons, settings>>
                  /\ ~wrote']_vars

\* The Screenshot button has been dragged from the third row to the first.
C39_Witness ==
    /\ last.handler = "on_reorder"
    /\ last.index = 2
    /\ wrote
    /\ DictGet(buttons[1], "action") = PyStr("screenshot")
    /\ DictGet(buttons[2], "action") = PyStr("media")
    /\ DictGet(buttons[3], "action") = PyStr("files")
    /\ load_configured_buttons(settings) = buttons


(***************************************************************************)
(* Properties of the shake listener                                        *)
(***************************************************************************)
\* C40: the reversals needed follow the documented mapping (sensitivity 3
\* needs 10, 5 needs 8, 10 needs 4), and a higher sensitivity never needs
\* more reversals than a lower one.
C40_DocumentedReversals ==
    /\ shake.sensitivity = 30 => shake.needed_reversals = 10
    /\ shake.sensitivity = 50 => shake.needed_reversals = 8
    /\ shake.sensitivity = 100 => shake.needed_reversals = 4
    /\ \A lower, higher \in Sensitivities :
          lower <= higher => NeededReversals(higher) <= NeededReversals(lower)

\* The mapping as the code computes it: 13 minus the whole part of the
\* sensitivity, and never fewer than 3.
NeededAsComputed ==
    /\ shake.sensitivity = 30 => shake.needed_reversals = 10
    /\ shake.sensitivity = 50 => shake.needed_reversals = 8
    /\ shake.sensitivity = 100 => shake.needed_reversals = 3
    /\ \A lower, higher \in Sensitivities :
          lower <= higher => NeededReversals(higher) <= NeededReversals(lower)


====
